---- MODULE Spec2Model ----
(***************************************************************************)
(* A model of the semantic-version bump validator of the CI scripts:       *)
(* .github/scripts/check-semver.py.  One run of the script is a state      *)
(* machine: parse_prdocs reads the change documents entry by entry,        *)
(* extract_crate_bumps checks out the two refs and builds the snapshots,   *)
(* and the loop of check_crate_bumps validates the crates of the new       *)
(* snapshot one after the other.  An uncaught ValueError or an exit(1)     *)
(* ends the run.                                                           *)
(*                                                                         *)
(* The inputs of the run (the entries of the prdoc files, the crates of    *)
(* the two workspaces) are drawn when the code reads them: an entry when   *)
(* the loop of parse_prdocs reaches it, the fields of a crate when the     *)
(* loop of check_crate_bumps reaches it, the crate of the base snapshot    *)
(* when find_by_name looks it up.  Crate names are unique in a workspace,  *)
(* so every name is looked up at most once and this is the same as fixing  *)
(* both snapshots when they are built.                                     *)
(*                                                                         *)
(* The classes Version, VersionBump and VersionBumpKind belong to the      *)
(* cargo_workspace package, which is not part of the sources; they are     *)
(* modelled after the specification (sections 3, 4.1 and 4.2).             *)
(***************************************************************************)
EXTENDS Integers, Sequences, FiniteSets, TLC

\* ------------------------------------------------------------------ bounds
\* The fields of a version range over 0..MaxV.
MaxV == 2
\* The number of prdoc files given to a run is at most MaxDocs.
MaxDocs == 2
\* The number of entries of the crates section of a prdoc is at most MaxEntries.
MaxEntries == 2

\* ------------------------------------------------------------ value spaces
\* Python's None, where it stands for a name, a keyword or a kind.
None == "None"

\* The names of the crates of the workspaces and of the prdocs.
Names == {"a", "b"}

\* The bump keywords a prdoc entry may carry; "bogus" is outside the vocabulary.
Keywords == {"patch", "minor", "major", "bogus"}

\* The members of the enumeration VersionBumpKind.
Kinds == {"Patch", "Minor", "Major"}

\* A dictionary over the crate names has the value Absent for a key it does not hold.
Absent == "absent"

\* x.y.z triples.
Versions == (0..MaxV) \X (0..MaxV) \X (0..MaxV)

\* find_by_name found no crate of that name.
NoCrate == << >>

\* A local variable that the current iteration has not assigned.
Unset == << -1 >>

\* The suffix of a version: None or a pre-release string.
Suffixes == {None, "dev"}

\* The order in which a workspace lists its crates: the sequences of distinct names.
Workspaces ==
  { s \in UNION { [1..n -> Names] : n \in 0..Cardinality(Names) } :
      \A p, q \in DOMAIN s : p # q => s[p] # s[q] }

Range(s) == { s[p] : p \in DOMAIN s }

\* ----------------------------------------------- cargo_workspace (library)
\* VersionBumpKind.from_str: the fixed vocabulary; anything else raises.
BadKeyword == "raise"

from_str(s) ==
  CASE s = "patch" -> "Patch"
    [] s = "minor" -> "Minor"
    [] s = "major" -> "Major"
    [] OTHER -> BadKeyword

\* The total order of VersionBumpKind: Major > Minor > Patch.
Rank(k) ==
  CASE k = "Patch" -> 1
    [] k = "Minor" -> 2
    [] k = "Major" -> 3

max(a, b) == IF Rank(b) > Rank(a) THEN b ELSE a

\* Version.into_mmp: the major.minor.patch reading of x.y.z, in which the first
\* non-zero field is the major one (0.1.0 and 0.0.1 read as 1.0.0).
into_mmp(v) ==
  IF v[1] > 0 THEN v
  ELSE IF v[2] > 0 THEN << v[2], v[3], 0 >>
  ELSE << v[3], 0, 0 >>

\* Version(1): y and z default to 0.
Version1 == << 1, 0, 0 >>

\* Version.diff: the bumps that old -> new may be classified as.  A relationship
\* that is no increase of a field is classified as Major or flagged invalid.
NoBump == [kind |-> None, strict |-> FALSE]
UnsetBump == [kind |-> "unset", strict |-> FALSE]

diff(old, new) ==
  IF new = old THEN { NoBump }
  ELSE IF new[1] > old[1]
    THEN { [kind |-> "Major", strict |-> (new[1] = old[1] + 1 /\ new[2] = 0 /\ new[3] = 0)] }
  ELSE IF new[1] = old[1] /\ new[2] > old[2]
    THEN { [kind |-> "Minor", strict |-> (new[2] = old[2] + 1 /\ new[3] = 0)] }
  ELSE IF new[1] = old[1] /\ new[2] = old[2] /\ new[3] > old[3]
    THEN { [kind |-> "Patch", strict |-> (new[3] = old[3] + 1)] }
  ELSE { [kind |-> "Major", strict |-> FALSE], [kind |-> "Invalid", strict |-> FALSE] }

is_none(bump) == bump.kind = None
is_major(bump) == bump.kind = "Major"
is_minor(bump) == bump.kind = "Minor"
is_patch(bump) == bump.kind = "Patch"

\* ------------------------------------------------------------------- state
VARIABLES
  pc,                   \* where the run is: "parse", "extract", "loop" (the head of the
                        \* loop), "continue" (the end of its body), "done", "failed"
  ndocs,                \* parse_prdocs: the prdocs opened so far
  nentries,             \* parse_prdocs: the entries read of the current prdoc
  entry,                \* parse_prdocs: the entry read last, [name, bump]
  seen,                 \* parse_prdocs: the entries read so far (history)
  bumps_per_crate,      \* parse_prdocs: the dictionary it builds
  expected_crate_bumps, \* check_crate_bumps: the dictionary parse_prdocs returned
  checkouts,            \* the refs extract_crate_bumps has checked out
  news,                 \* the names of news.crates, in order
  i,                    \* the crates of news.crates the loop has taken
  new,                  \* the crate the loop took last
  old,                  \* what find_by_name returned for it
  bump,                 \* old.version.diff(new.version)
  outcome,              \* how the iteration for new ended
  error                 \* the message of the exception or exit that ended the run

semver_vars == << pc, ndocs, nentries, entry, seen, bumps_per_crate, expected_crate_bumps,
                  checkouts, news, i, new, old, bump, outcome, error >>

\* The label command of .github/scripts/cmd/cmd.py.
VARIABLES
  label_pc,             \* where the command is: "status", "permission", "fetch",
                        \* "validate", "done", "exit1"
  pr_status,            \* what the check of the PR status read, and its result
  permission,           \* IS_ORG_MEMBER and IS_PR_AUTHOR as read from the environment
  allowed_labels,       \* what get_allowed_labels returned
  labels,               \* args.labels
  matches,              \* what difflib found for each label of args.labels
  label_out             \* the LABELS_JSON or ERROR_JSON line printed

label_vars == << label_pc, pr_status, permission, allowed_labels, labels, matches, label_out >>

\* What the scripts other than check-semver.py hold.
\* The bench command of .github/scripts/cmd/cmd.py.
VARIABLES
  bench_pc,             \* where the command is: "start", "build", "bench", "done", "exit1"
  bench_args,           \* args.runtime, args.pallet and args.fail_fast
  runtime_pallets_map,  \* the dict of the runtimes that have pallets to benchmark: its
                        \* keys in the order of insertion and the pallets of each key
  bench_i,              \* the place of the loops in the runtimes
  bench_j,              \* the place of the inner loop in the pallets of the runtime
  bench_log             \* the commands run so far, with their exit status

bench_vars == << bench_pc, bench_args, runtime_pallets_map, bench_i, bench_j, bench_log >>

\* .gitlab/check-each-crate.py, run once for each group.
VARIABLES
  each_pc,              \* where the runs are: "start", "loop", "done", "exit1", "IndexError"
  output,               \* the lines of cargo tree: a crate (name and path) each
  crates,               \* the list of the crates of the run
  groups_total,         \* sys.argv[2]
  target_group,         \* sys.argv[1] - 1 of the run
  each_i,               \* the i of the loop of the run
  checked               \* the cargo checks so far: the group of the run and the crate

each_vars == << each_pc, output, crates, groups_total, target_group, each_i, checked >>

\* .github/scripts/check-workspace.py.
VARIABLES
  ws_pc,                \* where main is: "members", "crates", "duplicates", "missing",
                        \* "links", "done", "exit1", "UnboundLocalError"
  ws_exit,              \* the function that has ended the run, None when none has
  exclude,              \* the crate paths of --exclude
  disk,                 \* the Cargo.toml of the crates on disk, in the order of os.walk
  workspace_crates,     \* the members of the workspace
  all_crates,           \* the path of each crate name found on disk (NoPath: none)
  manifests,            \* the dependency entries of the manifests of all_crates
  links,                \* the links that check_links has found
  broken                \* the broken links that check_links has found

ws_vars == << ws_pc, ws_exit, exclude, disk, workspace_crates, all_crates, manifests,
              links, broken >>

\* .github/scripts/check-runtime.py.
VARIABLES
  rt_pc,                \* where main is: "load", "check", "exit0", "exit1", "KeyError",
                        \* "IndexError"
  metadata,             \* the pallets of the metadata file and their constants
  specs,                \* the pallets of the specs file and their constants
  rt_res                \* the result of check_metadata, None before it

rt_vars == << rt_pc, metadata, specs, rt_res >>

\* .github/scripts/check-duplicated-deps.py.
VARIABLES
  dup_pc,               \* where main is: "find", "loop", "exit0", "exit1"
  tomls,                \* the Cargo.toml of each path of the tree
  files,                \* the list of find_cargo_toml_files
  dup_i,                \* the place of the loop in files
  any_duplicates        \* whether a file so far has duplicates

dup_vars == << dup_pc, tomls, files, dup_i, any_duplicates >>

\* .github/scripts/differential-tests-error-out-on-failures.py.
VARIABLES
  dt_pc,                \* where main is: "load", "loop", "exit0", "exit1"
  report,               \* execution_information of the report: the status of each mode
                        \* of each case of each metadata file ("absent": no such key)
  dt_i                  \* the place of the outer loop in the metadata files

dt_vars == << dt_pc, report, dt_i >>

\* .github/scripts/parse-zombienet-tests.py.
VARIABLES
  zn_pc,                \* where main is: "args", "done"
  jobs,                 \* the job-name of each job of the matrix ("": a job without one)
  flaky_tests,          \* the lines of --flaky-tests
  test_pattern,         \* --test-pattern
  filtered              \* the jobs that are printed

zn_vars == << zn_pc, jobs, flaky_tests, test_pattern, filtered >>

\* create_prdoc of .github/scripts/generate-prdoc.py.
VARIABLES
  pd_pc,                \* where create_prdoc is: "exists", "collect", "write", "done",
                        \* "exit1", "Exception"
  pd_args,              \* bump, force, and whether the prdoc of the PR existed before
  prdoc,                \* the "crates" of the prdoc that is built
  prdoc_file            \* the file prdoc/pr_<N>.prdoc: "none", "old" (the one that
                        \* existed), "truncated", or "new" with the crates written

pd_vars == << pd_pc, pd_args, prdoc, prdoc_file >>

not_semver == << label_vars, bench_vars, each_vars, ws_vars, rt_vars, dup_vars, dt_vars, zn_vars, pd_vars >>

\* What the scripts other than the label command hold.
not_label == << semver_vars, bench_vars, each_vars, ws_vars, rt_vars, dup_vars, dt_vars, zn_vars, pd_vars >>

not_bench == << semver_vars, label_vars, each_vars, ws_vars, rt_vars, dup_vars, dt_vars, zn_vars, pd_vars >>

not_each == << semver_vars, label_vars, bench_vars, ws_vars, rt_vars, dup_vars, dt_vars, zn_vars, pd_vars >>

not_ws == << semver_vars, label_vars, bench_vars, each_vars, rt_vars, dup_vars, dt_vars, zn_vars, pd_vars >>

not_rt == << semver_vars, label_vars, bench_vars, each_vars, ws_vars, dup_vars, dt_vars, zn_vars, pd_vars >>

not_dup == << semver_vars, label_vars, bench_vars, each_vars, ws_vars, rt_vars, dt_vars, zn_vars, pd_vars >>

not_dt == << semver_vars, label_vars, bench_vars, each_vars, ws_vars, rt_vars, dup_vars, zn_vars, pd_vars >>

not_zn == << semver_vars, label_vars, bench_vars, each_vars, ws_vars, rt_vars, dup_vars, dt_vars, pd_vars >>

not_pd == << semver_vars, label_vars, bench_vars, each_vars, ws_vars, rt_vars, dup_vars, dt_vars, zn_vars >>

vars == << semver_vars, label_vars, bench_vars, each_vars, ws_vars, rt_vars, dup_vars, dt_vars, zn_vars, pd_vars >>

parse_vars == << ndocs, nentries, entry, seen, bumps_per_crate >>
loop_vars == << i, new, old, bump, outcome >>

\* The record of a failure: what kind it is and what its message names.
NoError == [kind |-> None, crate |-> None, version |-> NoCrate, expected |-> None, got |-> None]

Error(kind, crate, version, expected, got) ==
  [kind |-> kind, crate |-> crate, version |-> version, expected |-> expected, got |-> got]

NoEntry == [name |-> None, bump |-> None]

NoCrateYet == [name |-> None, version |-> NoCrate, suffix |-> None, publish |-> FALSE, internal |-> FALSE]

SemverInit ==
  /\ pc = "parse"
  /\ ndocs = 0
  /\ nentries = 0
  /\ entry = NoEntry
  /\ seen = {}
  /\ bumps_per_crate = [n \in Names |-> Absent]
  /\ expected_crate_bumps = [n \in Names |-> Absent]
  /\ checkouts = << >>
  /\ news = << >>
  /\ i = 0
  /\ new = NoCrateYet
  /\ old = Unset
  /\ bump = UnsetBump
  /\ outcome = None
  /\ error = NoError

\* ------------------------------------------------------------ parse_prdocs
\* A variant of raise that notes the message and lets the loop go on.
raise_and_go_on(e) ==
  /\ pc' = "continue"
  /\ error' = e

\* An uncaught exception, or exit(1), ends the run with its message.
raise(e) ==
  /\ pc' = "failed"
  /\ error' = e

\* A variant of parse_entry in which the bump read last replaces the one held.
parse_entry_last_wins(bumps, crate) ==
  LET name == crate.name
      b == crate.bump
  IN IF b = None
       THEN [raised |-> FALSE, bumps |-> bumps]
       ELSE LET k == from_str(b)
            IN IF k = BadKeyword
                 THEN [raised |-> TRUE, bumps |-> bumps]
                 ELSE [raised |-> FALSE, bumps |-> [bumps EXCEPT ![name] = k]]

\* A variant of parse_entry that records an entry without a bump as a declared
\* None, which any later bump of the crate replaces.
parse_entry_records_none(bumps, crate) ==
  LET name == crate.name
      b == crate.bump
  IN IF b = None
       THEN [raised |-> FALSE,
             bumps |-> IF bumps[name] = Absent THEN [bumps EXCEPT ![name] = None] ELSE bumps]
       ELSE LET k == from_str(b)
            IN IF k = BadKeyword
                 THEN [raised |-> TRUE, bumps |-> bumps]
                 ELSE IF bumps[name] \in Kinds
                   THEN [raised |-> FALSE, bumps |-> [bumps EXCEPT ![name] = max(bumps[name], k)]]
                   ELSE [raised |-> FALSE, bumps |-> [bumps EXCEPT ![name] = k]]

\* A variant of parse_entry that passes over a keyword outside the vocabulary.
parse_entry_lenient(bumps, crate) ==
  LET name == crate.name
      b == crate.bump
  IN IF b = None \/ from_str(b) = BadKeyword
       THEN [raised |-> FALSE, bumps |-> bumps]
       ELSE IF bumps[name] # Absent
         THEN [raised |-> FALSE, bumps |-> [bumps EXCEPT ![name] = max(bumps[name], from_str(b))]]
         ELSE [raised |-> FALSE, bumps |-> [bumps EXCEPT ![name] = from_str(b)]]

\* The body of the loop over the crates of a prdoc: the dictionary after the
\* entry, or the exception of from_str.
parse_entry(bumps, crate) ==
  LET name == crate.name
      b == crate.bump
  IN IF b = None
       THEN [raised |-> FALSE, bumps |-> bumps]
       ELSE LET k == from_str(b)
            IN IF k = BadKeyword
                 THEN [raised |-> TRUE, bumps |-> bumps]
                 ELSE IF bumps[name] # Absent
                   THEN [raised |-> FALSE, bumps |-> [bumps EXCEPT ![name] = max(bumps[name], k)]]
                   ELSE [raised |-> FALSE, bumps |-> [bumps EXCEPT ![name] = k]]

\* for prdoc in prdocs: the loop takes the next prdoc file.
OpenPrdoc ==
  /\ pc = "parse"
  /\ ndocs < MaxDocs
  /\ ndocs' = ndocs + 1
  /\ nentries' = 0
  /\ UNCHANGED << pc, entry, seen, bumps_per_crate, expected_crate_bumps, checkouts,
                  news, loop_vars, error >>
  /\ UNCHANGED not_semver

\* for crate in crates: the loop takes the next entry of the current prdoc.
ParseEntry ==
  /\ pc = "parse"
  /\ ndocs >= 1
  /\ nentries < MaxEntries
  /\ \E name \in Names, b \in Keywords \cup {None} :
       LET crate == [name |-> name, bump |-> b]
           r == parse_entry(bumps_per_crate, crate)
       IN /\ nentries' = nentries + 1
          /\ entry' = crate
          /\ seen' = seen \cup {crate}
          /\ bumps_per_crate' = r.bumps
          /\ IF r.raised
               THEN raise(Error("keyword", None, NoCrate, None, b))
               ELSE UNCHANGED << pc, error >>
  /\ UNCHANGED << ndocs, expected_crate_bumps, checkouts, news, loop_vars >>
  /\ UNCHANGED not_semver

\* parse_prdocs returns the dictionary to check_crate_bumps.
ReturnBumps ==
  /\ pc = "parse"
  /\ ndocs >= 1
  /\ expected_crate_bumps' = bumps_per_crate
  /\ pc' = "extract"
  /\ UNCHANGED << parse_vars, checkouts, news, loop_vars, error >>
  /\ UNCHANGED not_semver

\* ----------------------------------------------------- extract_crate_bumps
\* A variant of ExtractCrateBumps that ends the run when the prdocs declare a
\* bump for a crate that the new workspace does not have.
ExtractCrateBumpsChecksNames ==
  /\ pc = "extract"
  /\ \E force, dirty \in BOOLEAN :
       IF ~force /\ dirty
         THEN /\ raise(Error("dirty", None, NoCrate, None, None))
              /\ UNCHANGED << checkouts, news >>
         ELSE /\ checkouts' = << "base_ref", "new_ref" >>
              /\ \E w \in Workspaces :
                   /\ news' = w
                   /\ IF \E n \in Names : expected_crate_bumps[n] # Absent /\ n \notin Range(w)
                        THEN raise(Error("missing", None, NoCrate, None, None))
                        ELSE pc' = "loop" /\ UNCHANGED error
  /\ ndocs' = 0
  /\ nentries' = 0
  /\ entry' = NoEntry
  /\ seen' = {}
  /\ bumps_per_crate' = [n \in Names |-> Absent]
  /\ UNCHANGED << expected_crate_bumps, loop_vars >>
  /\ UNCHANGED not_semver

\* The dirty check, the two checkouts and the two workspaces.  The locals of
\* parse_prdocs are gone by now, and the history of the entries ends here.
ExtractCrateBumps ==
  /\ pc = "extract"
  /\ \E force, dirty \in BOOLEAN :
       IF ~force /\ dirty
         THEN /\ raise(Error("dirty", None, NoCrate, None, None))
              /\ UNCHANGED << checkouts, news >>
         ELSE /\ checkouts' = << "base_ref", "new_ref" >>
              /\ \E w \in Workspaces : news' = w
              /\ pc' = "loop"
              /\ UNCHANGED error
  /\ ndocs' = 0
  /\ nentries' = 0
  /\ entry' = NoEntry
  /\ seen' = {}
  /\ bumps_per_crate' = [n \in Names |-> Absent]
  /\ UNCHANGED << expected_crate_bumps, loop_vars >>
  /\ UNCHANGED not_semver

\* ------------------------------------------------------- check_crate_bumps
\* A variant of skipped that does not look at the metadata.
skipped_publish_only(crate) ==
  IF ~crate.publish THEN "not_published"
  ELSE None

\* Why the loop passes over a crate without validating it, or None.
skipped(crate) ==
  IF ~crate.publish THEN "not_published"
  ELSE IF crate.internal THEN "internal"
  ELSE None

\* A variant of suffix_check that lets every suffix pass.
suffix_check_off(crate) == NoError

\* A published crate cannot have a suffix.
suffix_check(crate) ==
  IF crate.suffix # None
    THEN Error("suffix", crate.name, NoCrate, None, None)
    ELSE NoError

\* A variant of bootstrap_check that compares the version as written with 1.0.0.
bootstrap_check_xyz(crate) ==
  IF crate.version # Version1
    THEN Error("bootstrap", crate.name, crate.version, None, None)
    ELSE NoError

\* A crate that the base snapshot does not have starts at 0.0.1, 0.1.0 or 1.0.0.
bootstrap_check(crate) ==
  IF into_mmp(crate.version) # Version1
    THEN Error("bootstrap", crate.name, crate.version, None, None)
    ELSE NoError

\* A variant of check_crate_semver_bumps without the last else: a bump that is
\* neither major, minor nor patch passes.
check_crate_semver_bumps_no_else(crate, b) ==
  IF is_none(b) THEN NoError
  ELSE IF is_major(b)
    THEN IF ~b.strict THEN Error("strict_major", None, crate.version, None, None) ELSE NoError
  ELSE IF is_minor(b)
    THEN IF ~b.strict THEN Error("strict_minor", None, crate.version, None, None) ELSE NoError
  ELSE IF is_patch(b)
    THEN IF ~b.strict THEN Error("strict_patch", None, crate.version, None, None) ELSE NoError
  ELSE NoError

\* A variant of check_crate_semver_bumps whose minor branch has no strict check.
check_crate_semver_bumps_lax_minor(crate, b) ==
  IF is_none(b) THEN NoError
  ELSE IF is_major(b)
    THEN IF ~b.strict THEN Error("strict_major", None, crate.version, None, None) ELSE NoError
  ELSE IF is_minor(b)
    THEN NoError
  ELSE IF is_patch(b)
    THEN IF ~b.strict THEN Error("strict_patch", None, crate.version, None, None) ELSE NoError
  ELSE Error("invalid", crate.name, NoCrate, None, None)

\* The bump is valid in itself; the messages of the strict checks name the new
\* version and not the crate.
check_crate_semver_bumps(crate, b) ==
  IF is_none(b) THEN NoError
  ELSE IF is_major(b)
    THEN IF ~b.strict THEN Error("strict_major", None, crate.version, None, None) ELSE NoError
  ELSE IF is_minor(b)
    THEN IF ~b.strict THEN Error("strict_minor", None, crate.version, None, None) ELSE NoError
  ELSE IF is_patch(b)
    THEN IF ~b.strict THEN Error("strict_patch", None, crate.version, None, None) ELSE NoError
  ELSE Error("invalid", crate.name, NoCrate, None, None)

\* A variant of check_prdoc_bumps that lets a declared bump without a version
\* change pass.
check_prdoc_bumps_no_second(crate, b, expected) ==
  LET expected_bump_kind == IF expected[crate.name] = Absent THEN None ELSE expected[crate.name]
      got_bump_kind == IF ~is_none(b) THEN b.kind ELSE None
  IN IF expected_bump_kind = None /\ got_bump_kind # None
       THEN Error("undeclared", crate.name, NoCrate, None, got_bump_kind)
     ELSE IF expected_bump_kind # None /\ got_bump_kind # None /\ expected_bump_kind # got_bump_kind
       THEN Error("mismatch", crate.name, NoCrate, expected_bump_kind, got_bump_kind)
     ELSE NoError

\* The bump is the one the prdocs declare.
check_prdoc_bumps(crate, b, expected) ==
  LET expected_bump_kind == IF expected[crate.name] = Absent THEN None ELSE expected[crate.name]
      got_bump_kind == IF ~is_none(b) THEN b.kind ELSE None
  IN IF expected_bump_kind = None /\ got_bump_kind # None
       THEN Error("undeclared", crate.name, NoCrate, None, got_bump_kind)
     ELSE IF expected_bump_kind # None /\ got_bump_kind = None
       THEN Error("declared_none", crate.name, NoCrate, expected_bump_kind, None)
     ELSE IF expected_bump_kind # None /\ got_bump_kind # None /\ expected_bump_kind # got_bump_kind
       THEN Error("mismatch", crate.name, NoCrate, expected_bump_kind, got_bump_kind)
     ELSE NoError

\* The iteration ends: with the next crate (continue) or with an exception.
finish(e, how) ==
  IF e # NoError
    THEN /\ raise(e)
         /\ outcome' = "raised"
    ELSE /\ outcome' = how
         /\ pc' = "continue"
         /\ UNCHANGED error

\* A variant of CheckCrate that holds a new crate against the declared bumps.
CheckCrateChecksNew ==
  /\ pc = "loop"
  /\ i < Len(news)
  /\ i' = i + 1
  /\ \E version \in Versions, suffix \in Suffixes, publish \in BOOLEAN, internal \in BOOLEAN :
       LET crate == [name |-> news[i + 1], version |-> version, suffix |-> suffix,
                     publish |-> publish, internal |-> internal]
       IN /\ new' = crate
          /\ IF skipped(crate) # None
               THEN /\ finish(NoError, skipped(crate))
                    /\ old' = Unset
                    /\ bump' = UnsetBump
             ELSE IF suffix_check(crate) # NoError
               THEN /\ finish(suffix_check(crate), None)
                    /\ old' = Unset
                    /\ bump' = UnsetBump
             ELSE \E o \in Versions \cup {NoCrate} :
                    /\ old' = o
                    /\ IF o = NoCrate
                         THEN /\ IF bootstrap_check(crate) # NoError
                                   THEN finish(bootstrap_check(crate), "new")
                                   ELSE finish(check_prdoc_bumps(crate,
                                                 CHOOSE b \in diff(version, version) : is_none(b),
                                                 expected_crate_bumps), "new")
                              /\ bump' = UnsetBump
                         ELSE \E b \in diff(o, version) :
                                /\ bump' = b
                                /\ IF check_crate_semver_bumps(crate, b) # NoError
                                     THEN finish(check_crate_semver_bumps(crate, b), None)
                                     ELSE finish(check_prdoc_bumps(crate, b, expected_crate_bumps), "checked")
  /\ UNCHANGED << parse_vars, expected_crate_bumps, checkouts, news >>
  /\ UNCHANGED not_semver

\* for new in news.crates: one iteration of the loop.
CheckCrate ==
  /\ pc = "loop"
  /\ i < Len(news)
  /\ i' = i + 1
  /\ \E version \in Versions, suffix \in Suffixes, publish \in BOOLEAN, internal \in BOOLEAN :
       LET crate == [name |-> news[i + 1], version |-> version, suffix |-> suffix,
                     publish |-> publish, internal |-> internal]
       IN /\ new' = crate
          /\ IF skipped(crate) # None
               THEN /\ finish(NoError, skipped(crate))
                    /\ old' = Unset
                    /\ bump' = UnsetBump
             ELSE IF suffix_check(crate) # NoError
               THEN /\ finish(suffix_check(crate), None)
                    /\ old' = Unset
                    /\ bump' = UnsetBump
             ELSE \E o \in Versions \cup {NoCrate} :
                    /\ old' = o
                    /\ IF o = NoCrate
                         THEN /\ finish(bootstrap_check(crate), "new")
                              /\ bump' = UnsetBump
                         ELSE \E b \in diff(o, version) :
                                /\ bump' = b
                                /\ IF check_crate_semver_bumps(crate, b) # NoError
                                     THEN finish(check_crate_semver_bumps(crate, b), None)
                                     ELSE finish(check_prdoc_bumps(crate, b, expected_crate_bumps), "checked")
  /\ UNCHANGED << parse_vars, expected_crate_bumps, checkouts, news >>
  /\ UNCHANGED not_semver

\* continue, or the end of the body: the loop is back at its head, and what the
\* iteration assigned is dead.
Continue ==
  /\ pc = "continue"
  /\ pc' = "loop"
  /\ new' = NoCrateYet
  /\ old' = Unset
  /\ bump' = UnsetBump
  /\ outcome' = None
  /\ UNCHANGED << parse_vars, expected_crate_bumps, checkouts, news, i, error >>
  /\ UNCHANGED not_semver

\* The loop is over: check_crate_bumps returns and the script ends.
Return ==
  /\ pc = "loop"
  /\ i = Len(news)
  /\ pc' = "done"
  /\ UNCHANGED << parse_vars, expected_crate_bumps, checkouts, news, loop_vars, error >>
  /\ UNCHANGED not_semver

\* ------------------------------------------------- cmd.py: the label command
\* The number of labels given to the label command is at most MaxLabels.
MaxLabels == 2

\* The labels a repository may have.
RepoLabels == {"T1-FRAME", "T1-XCM", "I2-bug"}

\* The labels a user may ask for: labels of the repository, a typo with the
\* prefix of a label and a word without a prefix.
RequestedLabels == RepoLabels \cup {"T1-typo", "junk"}

\* The group of re.match(r'^([A-Z]\d+)-', label), or None when there is no match.
prefix_match(label) ==
  CASE label \in {"T1-FRAME", "T1-XCM", "T1-typo"} -> "T1"
    [] label = "I2-bug" -> "I2"
    [] OTHER -> None

\* The values of IS_ORG_MEMBER and IS_PR_AUTHOR; EnvUnset when the variable is not set.
EnvUnset == "unset"
EnvValues == {EnvUnset, "true", "True", "false", "1"}

\* str.lower on the values of the environment.
lower(str) == IF str = "True" THEN "true" ELSE str

\* os.environ.get(name, 'false').
environ_get(value) == IF value = EnvUnset THEN "false" ELSE value

\* What the request to the GitHub API may end with.
Responses == {"200", "non200", "exception"}

\* What the check of the PR status may read.  A value that the code does not
\* get to read stays FALSE or None.
StatusReads ==
  { r \in [pr_num : BOOLEAN, token : BOOLEAN, response : Responses \cup {None},
           merged : BOOLEAN, closed : BOOLEAN, auto_merge : BOOLEAN, result : {None}] :
      /\ ~r.pr_num => ~r.token
      /\ (r.response # None) <=> r.token
      /\ r.response # "200" => (~r.merged /\ ~r.closed /\ ~r.auto_merge) }

\* check_pr_status: TRUE only for an open PR that is not merged and has no auto-merge.
check_pr_status(r) ==
  IF ~r.token THEN FALSE
  ELSE IF r.response = "exception" THEN FALSE
  ELSE IF r.response = "200"
    THEN IF r.merged THEN FALSE
         ELSE IF r.closed THEN FALSE
         ELSE IF r.auto_merge THEN FALSE
         ELSE TRUE
  ELSE FALSE

\* A variant of permitted that takes every value but 'false' for a yes.
permitted_unless_false(org, author) ==
  LET is_org_member == lower(environ_get(org)) # "false"
      is_pr_author == lower(environ_get(author)) # "false"
  IN ~(~is_org_member /\ ~is_pr_author)

\* The user may modify the labels: an organization member or the PR author.
permitted(org, author) ==
  LET is_org_member == lower(environ_get(org)) = "true"
      is_pr_author == lower(environ_get(author)) = "true"
  IN ~(~is_org_member /\ ~is_pr_author)

\* What difflib finds for a label: the closest of the valid labels above the
\* cutoff (None when there is none) and whether the similarity of the two, in
\* lower case, reaches the threshold of the auto-correction.
NoMatch == [closest |-> None, high |-> FALSE]

Matches(valid_labels) ==
  {NoMatch} \cup [closest : valid_labels, high : BOOLEAN]

\* auto_correct_labels for one label: the label it is corrected to, or None
\* when all there is is a suggestion.
auto_correct_labels(invalid_label, valid_labels, m) ==
  IF m.closest # None
    THEN IF m.high THEN m.closest ELSE None
    ELSE IF prefix_match(invalid_label) # None
      THEN LET prefix_labels ==
                 { l \in valid_labels : prefix_match(l) = prefix_match(invalid_label) }
           IN IF prefix_labels # {}
                THEN IF Cardinality(prefix_labels) = 1
                       THEN CHOOSE l \in prefix_labels : TRUE
                       ELSE None
                ELSE None
      ELSE None

\* What a label of the input becomes: itself, its correction, or None.
resolve(label, valid_labels, m) ==
  IF label \in valid_labels THEN label
  ELSE auto_correct_labels(label, valid_labels, m)

\* final_labels after the first n labels of the input.
RECURSIVE final_labels(_, _, _, _)
final_labels(input_labels, valid_labels, ms, n) ==
  IF n = 0 THEN << >>
  ELSE LET r == resolve(input_labels[n], valid_labels, ms[n])
           before == final_labels(input_labels, valid_labels, ms, n - 1)
       IN IF r = None THEN before ELSE Append(before, r)

\* A variant of validate_and_auto_correct_labels that raises only when no
\* label of the input is left.
validate_and_auto_correct_labels_partial(input_labels, valid_labels, ms) ==
  LET final == final_labels(input_labels, valid_labels, ms, Len(input_labels))
  IN [raised |-> final = << >>, final_labels |-> final]

\* validate_and_auto_correct_labels: the final labels, or ValueError when a
\* label is neither valid nor corrected.
validate_and_auto_correct_labels(input_labels, valid_labels, ms) ==
  LET unresolved == { k \in DOMAIN input_labels :
                        resolve(input_labels[k], valid_labels, ms[k]) = None }
  IN [raised |-> unresolved # {},
      final_labels |-> final_labels(input_labels, valid_labels, ms, Len(input_labels))]

LabelInit ==
  /\ label_pc = "status"
  /\ pr_status = [pr_num |-> FALSE, token |-> FALSE, response |-> None, merged |-> FALSE,
                  closed |-> FALSE, auto_merge |-> FALSE, result |-> None]
  /\ permission = [is_org_member |-> EnvUnset, is_pr_author |-> EnvUnset, read |-> FALSE]
  /\ allowed_labels = [fetched |-> FALSE, ok |-> FALSE, labels |-> {}]
  /\ labels = << >>
  /\ matches = << >>
  /\ label_out = [kind |-> None, labels |-> << >>, details |-> None]

\* except ValueError: the ERROR_JSON line and sys.exit(1).
label_error(details) ==
  /\ label_out' = [kind |-> "ERROR_JSON", labels |-> << >>, details |-> details]
  /\ label_pc' = "exit1"

\* The check of the PR status, which is made when PR_NUM is set.
LabelCheckStatus ==
  /\ label_pc = "status"
  /\ \E r \in StatusReads :
       LET ok == IF r.pr_num THEN check_pr_status(r) ELSE TRUE
       IN /\ pr_status' = [r EXCEPT !.result = IF ~r.pr_num THEN "skipped"
                                                ELSE IF ok THEN "open" ELSE "refused"]
          /\ IF ~ok
               THEN label_error("Cannot modify labels on merged PRs or PRs in merge queue")
               ELSE label_pc' = "permission" /\ UNCHANGED label_out
  /\ UNCHANGED << permission, allowed_labels, labels, matches >>
  /\ UNCHANGED not_label

\* The check of the permission of the user.
LabelCheckPermission ==
  /\ label_pc = "permission"
  /\ \E org, author \in EnvValues :
       /\ permission' = [is_org_member |-> org, is_pr_author |-> author, read |-> TRUE]
       /\ IF ~permitted(org, author)
            THEN label_error("Only the PR author or organization members can modify labels")
            ELSE label_pc' = "fetch" /\ UNCHANGED label_out
  /\ UNCHANGED << pr_status, allowed_labels, labels, matches >>
  /\ UNCHANGED not_label

\* get_allowed_labels: the labels of the repository, or RuntimeError when
\* fetch_repo_labels has None.
LabelFetch ==
  /\ label_pc = "fetch"
  /\ \E ok \in BOOLEAN, repo_labels \in SUBSET RepoLabels :
       /\ ~ok => repo_labels = {}
       /\ allowed_labels' = [fetched |-> TRUE, ok |-> ok, labels |-> repo_labels]
       /\ IF ~ok
            THEN label_error("Failed to fetch labels from repository. Please check your connection and try again.")
            ELSE label_pc' = "validate" /\ UNCHANGED label_out
  /\ UNCHANGED << pr_status, permission, labels, matches >>
  /\ UNCHANGED not_label

\* The inputs of the validation: the labels of the command line and, for each,
\* what difflib finds (nothing is looked for when the label is valid).
LabelInputs ==
  { in \in UNION { [labels : [1..n -> RequestedLabels],
                    matches : [1..n -> Matches(allowed_labels.labels)]] : n \in 1..MaxLabels } :
      \A k \in DOMAIN in.labels :
        in.labels[k] \in allowed_labels.labels => in.matches[k] = NoMatch }

\* The validation of the labels and the LABELS_JSON line.
LabelValidate ==
  /\ label_pc = "validate"
  /\ \E in \in LabelInputs :
       LET r == validate_and_auto_correct_labels(in.labels, allowed_labels.labels, in.matches)
       IN /\ labels' = in.labels
          /\ matches' = in.matches
          /\ IF r.raised
               THEN label_error("Labels requiring manual selection")
               ELSE /\ label_out' = [kind |-> "LABELS_JSON", labels |-> r.final_labels,
                                     details |-> None]
                    /\ label_pc' = "done"
  /\ UNCHANGED << pr_status, permission, allowed_labels >>
  /\ UNCHANGED not_label

LabelNext ==
  \/ LabelCheckStatus
  \/ LabelCheckPermission
  \/ LabelFetch
  \/ LabelValidate

\* ------------------------------------------------- cmd.py: the bench command
\* The number of pallets given with --pallet is at most MaxPallets.
MaxPallets == 2

\* The names of runtimes-matrix.json, in its order.
runtimeNames == << "dev", "westend" >>

\* The pallets a runtime may list.
Pallets == {"pallet_balances", "pallet_xcm"}

\* The pallets that --pallet may name: a pallet may be named twice, and a
\* pallet may be in no runtime.
RequestedPallets == Pallets \cup {"pallet_none"}

\* The sequences over S of at most n elements.
SeqsUpTo(S, n) == UNION { [1..k -> S] : k \in 0..n }

\* list(all_pallets): the pallets that a runtime lists, in the order of the set.
PalletLists == { l \in SeqsUpTo(Pallets, Cardinality(Pallets)) :
                   \A a, b \in DOMAIN l : a # b => l[a] # l[b] }

\* The command line: --runtime (all the runtimes when not given), --pallet, --fail-fast.
BenchArgs ==
  [runtime : SUBSET Range(runtimeNames),
   pallet : SeqsUpTo(RequestedPallets, MaxPallets),
   fail_fast : BOOLEAN]

\* The exit status of a command.
Statuses == {0, 1}

\* A command that was run: its exit status and, for the list of the pallets
\* of a runtime, the pallets of its output.
Command(cmd, runtime, pallet, status, listed) ==
  [cmd |-> cmd, runtime |-> runtime, pallet |-> pallet, status |-> status, output |-> listed]

\* runtimesMatrix after the filter on args.runtime.
runtimesMatrix == SelectSeq(runtimeNames, LAMBDA x : x \in bench_args.runtime)

\* A variant of exit_on that never exits.
exit_on_never(status) ==
  status # 0 /\ FALSE

\* A failed command ends the run under --fail-fast.
exit_on(status) ==
  status # 0 /\ bench_args.fail_fast

\* A variant of has_pallets that is content with one of the pallets.
has_some_pallet(requested, pallets) ==
  Range(requested) \cap Range(pallets) # {}

\* set(args.pallet).issubset(set(runtime_pallets_map[runtime])).
has_pallets(requested, pallets) ==
  Range(requested) \subseteq Range(pallets)

BenchInit ==
  /\ bench_pc = "start"
  /\ bench_args = [runtime |-> {}, pallet |-> << >>, fail_fast |-> FALSE]
  /\ runtime_pallets_map = [keys |-> << >>, pallets |-> [r \in Range(runtimeNames) |-> << >>]]
  /\ bench_i = 1
  /\ bench_j = 1
  /\ bench_log = << >>

\* The arguments, the filter of the runtimes and cargo install of the bencher.
BenchInstall ==
  /\ bench_pc = "start"
  /\ \E args \in BenchArgs, compile_bencher \in Statuses :
       /\ bench_args' = args
       /\ bench_log' = << Command("install", None, None, compile_bencher, << >>) >>
       /\ bench_pc' = IF compile_bencher # 0 THEN "exit1" ELSE "build"
  /\ UNCHANGED << runtime_pallets_map, bench_i, bench_j >>
  /\ UNCHANGED not_bench

\* One turn of the loop that builds a runtime and lists its pallets.
BenchBuild ==
  /\ bench_pc = "build"
  /\ bench_i <= Len(runtimesMatrix)
  /\ LET runtime == runtimesMatrix[bench_i]
     IN \E build_status \in Statuses, pallets \in PalletLists :
          IF build_status # 0
            THEN /\ pallets = << >>
                 /\ bench_log' = Append(bench_log, Command("build", runtime, None, build_status, << >>))
                 /\ IF exit_on(build_status)
                      THEN bench_pc' = "exit1" /\ UNCHANGED bench_i
                      ELSE bench_i' = bench_i + 1 /\ UNCHANGED bench_pc
                 /\ UNCHANGED runtime_pallets_map
            ELSE /\ bench_log' = bench_log \o << Command("build", runtime, None, build_status, << >>),
                                                  Command("list", runtime, None, 0, pallets) >>
                 /\ runtime_pallets_map' =
                      [keys |-> Append(runtime_pallets_map.keys, runtime),
                       pallets |-> [runtime_pallets_map.pallets EXCEPT ![runtime] = pallets]]
                 /\ bench_i' = bench_i + 1
                 /\ UNCHANGED bench_pc
  /\ UNCHANGED << bench_args, bench_j >>
  /\ UNCHANGED not_bench

\* The filter on the pallets of --pallet, and the end of a run with nothing to benchmark.
BenchFilter ==
  /\ bench_pc = "build"
  /\ bench_i > Len(runtimesMatrix)
  /\ LET kept == SelectSeq(runtime_pallets_map.keys,
                           LAMBDA r : has_pallets(bench_args.pallet,
                                                  runtime_pallets_map.pallets[r]))
         new_pallets_map ==
           IF bench_args.pallet # << >>
             THEN [keys |-> kept,
                   pallets |-> [r \in Range(runtimeNames) |->
                                  IF r \in Range(kept) THEN bench_args.pallet ELSE << >>]]
             ELSE runtime_pallets_map
     IN /\ runtime_pallets_map' = new_pallets_map
        /\ bench_pc' = IF new_pallets_map.keys = << >> THEN "exit1" ELSE "bench"
  /\ bench_i' = 1
  /\ bench_j' = 1
  /\ UNCHANGED << bench_args, bench_log >>
  /\ UNCHANGED not_bench

\* One turn of the inner loop: the benchmark of a pallet in a runtime.
BenchPallet ==
  /\ bench_pc = "bench"
  /\ bench_i <= Len(runtime_pallets_map.keys)
  /\ bench_j <= Len(runtime_pallets_map.pallets[runtime_pallets_map.keys[bench_i]])
  /\ LET runtime == runtime_pallets_map.keys[bench_i]
         pallet == runtime_pallets_map.pallets[runtime][bench_j]
     IN \E manifest_path \in BOOLEAN, status \in Statuses :
          /\ runtime # "dev" => manifest_path
          /\ LET looked == IF runtime = "dev"
                             THEN Append(bench_log, Command("metadata", runtime, pallet, 0, << >>))
                             ELSE bench_log
             IN IF ~manifest_path /\ bench_args.fail_fast
                  THEN /\ status = 0
                       /\ bench_log' = looked
                       /\ bench_pc' = "exit1"
                       /\ UNCHANGED bench_j
                  ELSE /\ bench_log' = Append(looked, Command("bench", runtime, pallet, status, << >>))
                       /\ IF exit_on(status)
                            THEN bench_pc' = "exit1" /\ UNCHANGED bench_j
                            ELSE bench_j' = bench_j + 1 /\ UNCHANGED bench_pc
  /\ UNCHANGED << bench_args, runtime_pallets_map, bench_i >>
  /\ UNCHANGED not_bench

\* The end of the inner loop: the next runtime.
BenchNextRuntime ==
  /\ bench_pc = "bench"
  /\ bench_i <= Len(runtime_pallets_map.keys)
  /\ bench_j > Len(runtime_pallets_map.pallets[runtime_pallets_map.keys[bench_i]])
  /\ bench_i' = bench_i + 1
  /\ bench_j' = 1
  /\ UNCHANGED << bench_pc, bench_args, runtime_pallets_map, bench_log >>
  /\ UNCHANGED not_bench

\* The end of the loops: the report of the failed and successful benchmarks.
BenchReport ==
  /\ bench_pc = "bench"
  /\ bench_i > Len(runtime_pallets_map.keys)
  /\ bench_pc' = "done"
  /\ UNCHANGED << bench_args, runtime_pallets_map, bench_i, bench_j, bench_log >>
  /\ UNCHANGED not_bench

BenchNext ==
  \/ BenchInstall
  \/ BenchBuild
  \/ BenchFilter
  \/ BenchPallet
  \/ BenchNextRuntime
  \/ BenchReport

\* ------------------------------------------------- check-each-crate.py
\* cargo tree prints at most MaxLines lines, of at most MaxCrates crates, and
\* there are at most MaxGroups groups.
MaxLines == 4
MaxCrates == 3
MaxGroups == 4

\* The crates (name and path), as numbers in the order of the tuples.
Crates == 1..MaxCrates

\* list(set(crates)) and crates.sort().
RECURSIVE sorted(_)
sorted(S) ==
  IF S = {} THEN << >>
  ELSE LET least == CHOOSE x \in S : \A y \in S : x <= y
       IN << least >> \o sorted(S \ {least})

\* A variant of overflow_crates that leaves the remainder out.
overflow_crates_none(n, group, total) ==
  IF group + 1 = total THEN 0 ELSE 0

\* The crates that the integer division leaves to the last group.
overflow_crates(n, group, total) ==
  IF group + 1 = total THEN n % total ELSE 0

crates_per_group == Len(crates) \div groups_total

EachInit ==
  /\ each_pc = "start"
  /\ output = << >>
  /\ crates = << >>
  /\ groups_total = 1
  /\ target_group = 0
  /\ each_i = 0
  /\ checked = << >>

\* The start of the runs: the crates of the workspace and the number of groups;
\* the first run is the one of group 1.  A run without crates exits with 1.
EachStart ==
  /\ each_pc = "start"
  /\ \E lines \in SeqsUpTo(Crates, MaxLines), total \in 1..MaxGroups :
       /\ output' = lines
       /\ crates' = sorted(Range(lines))
       /\ groups_total' = total
       /\ each_pc' = IF Len(sorted(Range(lines))) = 0 THEN "exit1" ELSE "loop"
  /\ UNCHANGED << target_group, each_i, checked >>
  /\ UNCHANGED not_each

\* One turn of the loop: cargo check of the crate of index
\* crates_per_group * target_group + i.
EachCheck ==
  /\ each_pc = "loop"
  /\ each_i < crates_per_group + overflow_crates(Len(crates), target_group, groups_total)
  /\ LET crate == crates_per_group * target_group + each_i
     IN IF crate >= Len(crates)
          THEN /\ each_pc' = "IndexError"
               /\ UNCHANGED << each_i, checked >>
          ELSE \E returncode \in Statuses :
                 /\ checked' = Append(checked, [group |-> target_group + 1,
                                                crate |-> crates[crate + 1]])
                 /\ IF returncode # 0
                      THEN each_pc' = "exit1" /\ UNCHANGED each_i
                      ELSE each_i' = each_i + 1 /\ UNCHANGED each_pc
  /\ UNCHANGED << output, crates, groups_total, target_group >>
  /\ UNCHANGED not_each

\* The end of the loop of a run, and the run of the next group if there is one.
EachNextGroup ==
  /\ each_pc = "loop"
  /\ each_i >= crates_per_group + overflow_crates(Len(crates), target_group, groups_total)
  /\ IF target_group + 1 < groups_total
       THEN /\ target_group' = target_group + 1
            /\ each_i' = 0
            /\ UNCHANGED each_pc
       ELSE /\ each_pc' = "done"
            /\ UNCHANGED << target_group, each_i >>
  /\ UNCHANGED << output, crates, groups_total, checked >>
  /\ UNCHANGED not_each

EachNext ==
  \/ EachStart
  \/ EachCheck
  \/ EachNextGroup

\* ------------------------------------------------- check-workspace.py
\* The workspace has at most MaxMembers members, the disk at most MaxDisk
\* crates, and their manifests at most MaxDeps dependencies in all.
MaxMembers == 2
MaxDisk == 2
MaxDeps == 2

\* The paths of crates, the names of the crates on disk and the keys of
\* dependencies ("ext" is no crate of the repository).
CratePaths == {"a", "b", "c"}
CrateNames == {"x", "y"}
DepKeys == {"y", "ext"}

NoPath == ""

\* The tables of dependencies of a manifest that check_links reads, those of
\* the targets first; "target" stands for the tables under manifest['target'].
DepTables == << "target", "dependencies", "dev-dependencies", "build-dependencies" >>

\* What the root Cargo.toml may be.
RootManifests ==
  [status : {"missing", "no workspace", "no members"}, members : {<< >>}]
    \cup [status : {"members"}, members : SeqsUpTo(CratePaths, MaxMembers)]

\* What os.walk may find: crates of different paths.
Disks ==
  { d \in SeqsUpTo([path : CratePaths, name : CrateNames], MaxDisk) :
      \A a, b \in DOMAIN d : a # b => d[a].path # d[b].path }

\* get_crates after the first n crates of the disk: crates[name] = (path, manifest).
RECURSIVE get_crates(_, _, _)
get_crates(d, exclude_crates, n) ==
  IF n = 0 THEN [name \in CrateNames |-> NoPath]
  ELSE LET crates_before == get_crates(d, exclude_crates, n - 1)
       IN IF d[n].path \in exclude_crates
            THEN crates_before
            ELSE [crates_before EXCEPT ![d[n].name] = d[n].path]

\* The keys of a dict of crates, and len() of it.
keys(crates_dict) == { name \in CrateNames : crates_dict[name] # NoPath }

\* The order of the strings that are sorted.
ord(str) ==
  CASE str = "ext" -> 1 [] str = "x" -> 2 [] str = "y" -> 3 [] OTHER -> 0

\* list.sort() of a list of links (l, r).
RECURSIVE sort(_)
sort(list) ==
  IF list = << >> THEN << >>
  ELSE LET before(p, q) == \/ ord(p[1]) < ord(q[1])
                           \/ ord(p[1]) = ord(q[1]) /\ ord(p[2]) <= ord(q[2])
           least == CHOOSE k \in DOMAIN list : \A j \in DOMAIN list : before(list[k], list[j])
       IN << list[least] >>
            \o sort(SubSeq(list, 1, least - 1) \o SubSeq(list, least + 1, Len(list)))

\* check_deps: the links and the broken links of one table of dependencies.
RECURSIVE check_deps(_, _, _)
check_deps(name, deps, crates_dict) ==
  IF deps = << >> THEN [links |-> << >>, broken |-> << >>]
  ELSE LET dep == Head(deps)
           dep_name == IF dep.package # None THEN dep.package ELSE dep.key
       IN IF dep_name \in keys(crates_dict)
            THEN IF ~dep.path
                   THEN [links |-> << << name, dep_name >> >>,
                         broken |-> << << name, dep_name >> >>]
                   ELSE LET rest == check_deps(name, Tail(deps), crates_dict)
                        IN [links |-> << << name, dep_name >> >> \o rest.links,
                            broken |-> rest.broken]
            ELSE check_deps(name, Tail(deps), crates_dict)

\* check_links over the crates and tables (name, table) of todo.
RECURSIVE check_tables(_, _, _)
check_tables(todo, entries, crates_dict) ==
  IF todo = {} THEN [links |-> << >>, broken |-> << >>]
  ELSE LET t == CHOOSE t \in todo : TRUE
           deps == SelectSeq(entries, LAMBDA e : e.crate = t[1] /\ e.table = t[2])
           here == check_deps(t[1], deps, crates_dict)
           rest == check_tables(todo \ {t}, entries, crates_dict)
       IN [links |-> here.links \o rest.links, broken |-> here.broken \o rest.broken]

\* The manifests that the crates of a dict may have: the entries of their
\* tables of dependencies, in the order of the file; a key is once in a table.
Manifests(crates_dict) ==
  { es \in SeqsUpTo([crate : keys(crates_dict), table : Range(DepTables), key : DepKeys,
                     package : {None, "y"}, path : BOOLEAN], MaxDeps) :
      \A a, b \in DOMAIN es :
        (a # b /\ es[a].crate = es[b].crate /\ es[a].table = es[b].table)
          => es[a].key # es[b].key }

WsInit ==
  /\ ws_pc = "members"
  /\ ws_exit = None
  /\ exclude = {}
  /\ disk = << >>
  /\ workspace_crates = << >>
  /\ all_crates = [name \in CrateNames |-> NoPath]
  /\ manifests = << >>
  /\ links = << >>
  /\ broken = << >>

ws_exits(function) ==
  /\ ws_pc' = "exit1"
  /\ ws_exit' = function

\* parse_args and get_members.  The message of a missing root manifest reads
\* root_manifest before it is bound.
WsGetMembers ==
  /\ ws_pc = "members"
  /\ \E root_manifest \in RootManifests, excluded \in {{}, {"c"}} :
       /\ exclude' = excluded
       /\ workspace_crates' = root_manifest.members
       /\ IF root_manifest.status = "missing"
            THEN ws_pc' = "UnboundLocalError" /\ ws_exit' = "get_members"
            ELSE IF root_manifest.status = "no workspace"
              THEN ws_exits("get_members")
              ELSE IF \E k \in DOMAIN root_manifest.members : root_manifest.members[k] \in excluded
                THEN ws_exits("get_members")
                ELSE ws_pc' = "crates" /\ UNCHANGED ws_exit
  /\ UNCHANGED << disk, all_crates, manifests, links, broken >>
  /\ UNCHANGED not_ws

WsGetCrates ==
  /\ ws_pc = "crates"
  /\ \E d \in Disks :
       /\ disk' = d
       /\ all_crates' = get_crates(d, exclude, Len(d))
  /\ ws_pc' = "duplicates"
  /\ UNCHANGED << ws_exit, exclude, workspace_crates, manifests, links, broken >>
  /\ UNCHANGED not_ws

WsCheckDuplicates ==
  /\ ws_pc = "duplicates"
  /\ IF \E a, b \in DOMAIN workspace_crates : a # b /\ workspace_crates[a] = workspace_crates[b]
       THEN ws_exits("check_duplicates")
       ELSE ws_pc' = "missing" /\ UNCHANGED ws_exit
  /\ UNCHANGED << exclude, disk, workspace_crates, all_crates, manifests, links, broken >>
  /\ UNCHANGED not_ws

WsCheckMissing ==
  /\ ws_pc = "missing"
  /\ IF Len(workspace_crates) = Cardinality(keys(all_crates))
       THEN ws_pc' = "links" /\ UNCHANGED ws_exit
       ELSE ws_exits("check_missing")
  /\ UNCHANGED << exclude, disk, workspace_crates, all_crates, manifests, links, broken >>
  /\ UNCHANGED not_ws

WsCheckLinks ==
  /\ ws_pc = "links"
  /\ \E entries \in Manifests(all_crates) :
       LET found == check_tables(keys(all_crates) \X Range(DepTables), entries, all_crates)
       IN /\ manifests' = entries
          /\ links' = sort(found.links)
          /\ broken' = sort(found.broken)
          /\ IF Len(found.broken) > 0
               THEN ws_exits("check_links")
               ELSE ws_pc' = "done" /\ UNCHANGED ws_exit
  /\ UNCHANGED << exclude, disk, workspace_crates, all_crates >>
  /\ UNCHANGED not_ws

WsNext ==
  \/ WsGetMembers
  \/ WsGetCrates
  \/ WsCheckDuplicates
  \/ WsCheckMissing
  \/ WsCheckLinks

\* ------------------------------------------------- check-runtime.py
\* The pallets, the names of their constants and the values of the constants.
PalletIds == {"System", "Balances"}
ConstantNames == {"Version", "Deposit"}
ConstantValues == {"0x00", "0x01"}

\* The constants of a pallet, in the order of the file: a name is there once.
Constants ==
  { cs \in SeqsUpTo([name : ConstantNames, value : ConstantValues], Cardinality(ConstantNames)) :
      \A a, b \in DOMAIN cs : a # b => cs[a].name # cs[b].name }

\* The pallets of a file, in its order: a pallet is there once.
PalletFiles ==
  { ps \in SeqsUpTo([id : PalletIds, constants : Constants], Cardinality(PalletIds)) :
      \A a, b \in DOMAIN ps : a # b => ps[a].id # ps[b].id }

\* What a function has: the value it returns ("True", "False" or None), or
\* the exception that it raises.
Exceptions == {"KeyError", "IndexError"}

\* all() of the results in the order of their evaluation, which an exception ends.
RECURSIVE all(_)
all(results) ==
  IF results = << >> THEN "True"
  ELSE IF Head(results) \in Exceptions THEN Head(results)
  ELSE LET rest == all(Tail(results))
       IN IF rest \in Exceptions THEN rest
          ELSE IF Head(results) = "False" THEN "False"
          ELSE rest

\* check_constant: the constant of the metadata against the first constant of the specs.
check_constant(spec_pallet_value, meta_constant) ==
  IF spec_pallet_value = << >> THEN "IndexError"
  ELSE IF meta_constant.name = spec_pallet_value[1].name
    THEN IF spec_pallet_value[1].value = meta_constant.value THEN "True" ELSE "False"
    ELSE None

\* check_pallet: the constants of the pallet of the metadata against the pallet of the specs.
check_pallet(meta, spec_pallet) ==
  IF ~\E k \in DOMAIN meta : meta[k].id = spec_pallet.id THEN "KeyError"
  ELSE LET metadata_pallet == meta[CHOOSE k \in DOMAIN meta : meta[k].id = spec_pallet.id]
           res == [k \in DOMAIN metadata_pallet.constants |->
                     check_constant(spec_pallet.constants, metadata_pallet.constants[k])]
       IN all(SelectSeq(res, LAMBDA item : item # None))

\* check_pallets and check_metadata: all the pallets of the specs.
check_metadata(meta, spec) ==
  all([k \in DOMAIN spec |-> check_pallet(meta, spec[k])])

RtInit ==
  /\ rt_pc = "load"
  /\ metadata = << >>
  /\ specs = << >>
  /\ rt_res = None

\* main up to the load of the two files; without two arguments it exits with 1.
RtLoad ==
  /\ rt_pc = "load"
  /\ \E argc \in {2, 3}, meta \in PalletFiles, spec \in PalletFiles :
       IF argc # 3
         THEN /\ meta = << >> /\ spec = << >>
              /\ rt_pc' = "exit1"
              /\ UNCHANGED << metadata, specs >>
         ELSE /\ metadata' = meta
              /\ specs' = spec
              /\ rt_pc' = "check"
  /\ UNCHANGED rt_res
  /\ UNCHANGED not_rt

\* check_metadata and the exit code of main.
RtCheck ==
  /\ rt_pc = "check"
  /\ rt_res' = check_metadata(metadata, specs)
  /\ rt_pc' = IF rt_res' \in Exceptions THEN rt_res'
              ELSE IF rt_res' = "True" THEN "exit0" ELSE "exit1"
  /\ UNCHANGED << metadata, specs >>
  /\ UNCHANGED not_rt

RtNext ==
  \/ RtLoad
  \/ RtCheck

\* ------------------------------------------------- check-duplicated-deps.py
\* The paths where a Cargo.toml may be, in the order of os.walk; the last is
\* in a directory named target.
TomlPaths == << "./Cargo.toml", "./a/Cargo.toml", "./target/Cargo.toml" >>

\* The configurations of a dependency: a version string, a table (its items
\* in the order of the file), a value that is neither (a number), or no entry.
DepConfigs ==
  [type : {"str", "other"}, items : { << << "", v >> >> : v \in {"1", "2"} }]
    \cup [type : {"dict"}, items : { << << "version", "1" >> >>,
                                     << << "version", "1" >>, << "path", "p" >> >>,
                                     << << "path", "p" >>, << "version", "1" >> >> }]
    \cup [type : {"absent"}, items : { << >> }]

\* What a Cargo.toml may be: none at that path, a file that toml cannot load,
\* or a manifest with the tables of dependencies (log, when it is there, is a
\* duplicate); the manifest in target, if any, has a duplicate.
Tomls ==
  LET none == [serde |-> [type |-> "absent", items |-> << >>],
               log |-> [type |-> "absent", items |-> << >>]]
      both == [serde |-> [type |-> "str", items |-> << << "", "1" >> >>],
               log |-> [type |-> "absent", items |-> << >>]]
      tables == [serde : DepConfigs,
                 log : { c \in DepConfigs : c.type = "absent" \/ c = both.serde }]
      manifest == [status : {"none", "unparsable"}, deps : {none}, dev_deps : {none}]
                    \cup { m \in [status : {"ok"}, deps : tables, dev_deps : tables] :
                             m.deps.log = m.dev_deps.log }
  IN { t \in [Range(TomlPaths) -> manifest] :
         t["./target/Cargo.toml"] \in
           { [status |-> "none", deps |-> none, dev_deps |-> none],
             [status |-> "ok", deps |-> both, dev_deps |-> both] } }

\* A variant of format_dep_config that leaves a version string as it is.
format_dep_config_str(config) ==
  IF config.type = "str" THEN config
  ELSE IF config.type = "dict"
    THEN [type |-> "dict", items |-> SelectSeq(config.items, LAMBDA kv : kv[1] = "path")
                                       \o SelectSeq(config.items, LAMBDA kv : kv[1] = "version")]
    ELSE [type |-> "dict", items |-> << >>]

\* format_dep_config: a table with the items sorted by key ("path" is before "version").
format_dep_config(config) ==
  IF config.type = "str" THEN [type |-> "dict", items |-> << << "version", config.items[1][2] >> >>]
  ELSE IF config.type = "dict"
    THEN [type |-> "dict", items |-> SelectSeq(config.items, LAMBDA kv : kv[1] = "path")
                                       \o SelectSeq(config.items, LAMBDA kv : kv[1] = "version")]
    ELSE [type |-> "dict", items |-> << >>]

\* parse_dependencies and the duplicates of a file.
duplicates(toml_file) ==
  LET deps == IF toml_file.status = "ok" THEN toml_file.deps ELSE [n \in {} |-> 0]
      dev_deps == IF toml_file.status = "ok" THEN toml_file.dev_deps ELSE [n \in {} |-> 0]
  IN { dep_name \in DOMAIN deps :
         /\ deps[dep_name].type # "absent"
         /\ dev_deps[dep_name].type # "absent"
         /\ format_dep_config(deps[dep_name]) = format_dep_config(dev_deps[dep_name]) }

DupInit ==
  /\ dup_pc = "find"
  /\ tomls = [path \in Range(TomlPaths) |->
                [status |-> "none", deps |-> [serde |-> [type |-> "absent", items |-> << >>],
                                              log |-> [type |-> "absent", items |-> << >>]],
                 dev_deps |-> [serde |-> [type |-> "absent", items |-> << >>],
                               log |-> [type |-> "absent", items |-> << >>]]]]
  /\ files = << >>
  /\ dup_i = 1
  /\ any_duplicates = FALSE

\* find_cargo_toml_files: the Cargo.toml of the tree, but for the directories named target.
DupFind ==
  /\ dup_pc = "find"
  /\ \E tree \in Tomls :
       /\ tomls' = tree
       /\ files' = SelectSeq(TomlPaths, LAMBDA path : /\ tree[path].status # "none"
                                                      /\ path # "./target/Cargo.toml")
  /\ dup_pc' = "loop"
  /\ UNCHANGED << dup_i, any_duplicates >>
  /\ UNCHANGED not_dup

\* One turn of the loop over the files.
DupFile ==
  /\ dup_pc = "loop"
  /\ dup_i <= Len(files)
  /\ any_duplicates' = IF duplicates(tomls[files[dup_i]]) # {} THEN TRUE ELSE any_duplicates
  /\ dup_i' = dup_i + 1
  /\ UNCHANGED << dup_pc, tomls, files >>
  /\ UNCHANGED not_dup

\* The end of main.
DupExit ==
  /\ dup_pc = "loop"
  /\ dup_i > Len(files)
  /\ dup_pc' = IF any_duplicates THEN "exit1" ELSE "exit0"
  /\ UNCHANGED << tomls, files, dup_i, any_duplicates >>
  /\ UNCHANGED not_dup

DupNext ==
  \/ DupFind
  \/ DupFile
  \/ DupExit

\* ------------------------------------------------- differential-tests-error-out-on-failures.py
\* The keys of execution_information, in the order of the report, and the
\* keys of case_reports and of mode_execution_reports.
MetadataFiles == << "a.json", "b.json" >>
ReportKeys == [cases |-> {"0", "1"}, modes |-> {"Y+", "E-"}]

\* A variant of is_failed that takes an ignored case for a failure.
is_failed_or_ignored(execution_report) ==
  execution_report \notin {"absent", "Succeeded"}

\* execution_report["status"]["status"] == "Failed".
is_failed(execution_report) ==
  execution_report = "Failed"

DtInit ==
  /\ dt_pc = "load"
  /\ report = [f \in Range(MetadataFiles) |-> [c \in ReportKeys.cases |->
                 [m \in ReportKeys.modes |-> "absent"]]]
  /\ dt_i = 1

\* json.load of the report.
DtLoad ==
  /\ dt_pc = "load"
  /\ report' \in [Range(MetadataFiles) -> [ReportKeys.cases ->
                    [ReportKeys.modes -> {"absent", "Succeeded", "Failed", "Ignored"}]]]
  /\ dt_pc' = "loop"
  /\ UNCHANGED dt_i
  /\ UNCHANGED not_dt

\* One turn of the outer loop: the cases and the modes of a metadata file.
DtFile ==
  /\ dt_pc = "loop"
  /\ dt_i <= Len(MetadataFiles)
  /\ LET case_reports == report[MetadataFiles[dt_i]]
     IN IF \E c \in ReportKeys.cases, m \in ReportKeys.modes : is_failed(case_reports[c][m])
          THEN dt_pc' = "exit1" /\ UNCHANGED dt_i
          ELSE dt_i' = dt_i + 1 /\ UNCHANGED dt_pc
  /\ UNCHANGED report
  /\ UNCHANGED not_dt

\* The end of the loops: exit(0).
DtExit ==
  /\ dt_pc = "loop"
  /\ dt_i > Len(MetadataFiles)
  /\ dt_pc' = "exit0"
  /\ UNCHANGED << report, dt_i >>
  /\ UNCHANGED not_dt

DtNext ==
  \/ DtLoad
  \/ DtFile
  \/ DtExit

\* ------------------------------------------------- parse-zombienet-tests.py
\* The matrix has at most MaxJobs jobs and --flaky-tests at most MaxFlaky lines.
MaxJobs == 3
MaxFlaky == 2

\* str.strip on the lines of --flaky-tests.
strip(str) ==
  IF str \in {" zombie-a ", " zombie-a"} THEN "zombie-a" ELSE str

\* re.search(test_pattern, name) for the patterns "zombie" and "-b$".
search(pattern, name) ==
  CASE pattern = "zombie" -> name \in {"zombie-a", "zombie-b", " zombie-a"}
    [] pattern = "-b$" -> name = "zombie-b"
    [] OTHER -> FALSE

\* A variant of filter_jobs that leaves the flaky jobs out under a pattern too.
RECURSIVE filter_jobs_never_flaky(_, _, _)
filter_jobs_never_flaky(job_names, flaky_lines, pattern) ==
  LET flaky_set == { strip(line) : line \in { l \in Range(flaky_lines) : strip(l) # "" } }
  IN IF job_names = << >> THEN << >>
     ELSE LET n == Len(job_names)
              name == job_names[n]
              before == filter_jobs_never_flaky(SubSeq(job_names, 1, n - 1), flaky_lines, pattern)
          IN IF name \in flaky_set THEN before
             ELSE IF pattern # "" /\ Len(pattern) > 0
               THEN IF search(pattern, name) THEN Append(before, name) ELSE before
               ELSE Append(before, name)

\* filter_jobs: the loop over the jobs.
RECURSIVE filter_jobs(_, _, _)
filter_jobs(job_names, flaky_lines, pattern) ==
  LET flaky_set == { strip(line) : line \in { l \in Range(flaky_lines) : strip(l) # "" } }
  IN IF job_names = << >> THEN << >>
     ELSE LET n == Len(job_names)
              name == job_names[n]
              before == filter_jobs(SubSeq(job_names, 1, n - 1), flaky_lines, pattern)
          IN IF pattern # "" /\ Len(pattern) > 0
               THEN IF search(pattern, name) THEN Append(before, name) ELSE before
               ELSE IF name \notin flaky_set THEN Append(before, name) ELSE before

ZnInit ==
  /\ zn_pc = "args"
  /\ jobs = << >>
  /\ flaky_tests = << >>
  /\ test_pattern = ""
  /\ filtered = << >>

\* main: the arguments, the jobs of the matrix, filter_jobs and the output.
ZnMain ==
  /\ zn_pc = "args"
  /\ \E job_names \in SeqsUpTo({"zombie-a", "zombie-b", " zombie-a", ""}, MaxJobs),
        lines \in SeqsUpTo({"zombie-a", " zombie-a ", "zombie-b", ""}, MaxFlaky),
        pattern \in {"", "zombie", "-b$"} :
       /\ jobs' = job_names
       /\ flaky_tests' = lines
       /\ test_pattern' = pattern
       /\ filtered' = filter_jobs(job_names, lines, pattern)
  /\ zn_pc' = "done"
  /\ UNCHANGED not_zn

ZnNext ==
  \/ ZnMain

\* ------------------------------------------------- generate-prdoc.py
\* A variant of may_write for which every value of force overwrites.
may_write_always(exists, force) ==
  IF exists THEN (IF force = force THEN TRUE ELSE FALSE) ELSE TRUE

\* create_prdoc goes on: there is no prdoc at the path, or force == True.
may_write(exists, force) ==
  IF exists THEN (IF force = TRUE THEN TRUE ELSE FALSE) ELSE TRUE

PdInit ==
  /\ pd_pc = "exists"
  /\ pd_args = [bump |-> "major", force |-> FALSE, existed |-> FALSE]
  /\ prdoc = << >>
  /\ prdoc_file = [content |-> "none", crates |-> << >>]

\* The arguments and the test of the path of the prdoc.
PdExists ==
  /\ pd_pc = "exists"
  /\ \E bump_arg \in {"patch", "minor", "major", "silent", "ignore", "none"},
        force \in BOOLEAN, exists \in BOOLEAN :
       /\ pd_args' = [bump |-> bump_arg, force |-> force, existed |-> exists]
       /\ prdoc_file' = [content |-> IF exists THEN "old" ELSE "none", crates |-> << >>]
       /\ pd_pc' = IF may_write(exists, force) THEN "collect" ELSE "exit1"
  /\ UNCHANGED prdoc
  /\ UNCHANGED not_pd

\* The published crates of the modified paths and their entries.  A path
\* with no Cargo.toml above it ends the run with exit(1); the workspace, the
\* patch or a manifest may raise an exception.
PdCollect ==
  /\ pd_pc = "collect"
  /\ \E how \in {"ok", "exit1", "Exception"},
        modified_crates \in { c \in SeqsUpTo({"a", "b"}, 2) :
                                \A j, k \in DOMAIN c : j # k => c[j] # c[k] } :
       /\ how # "ok" => modified_crates = << >>
       /\ prdoc' = [k \in DOMAIN modified_crates |->
                      IF pd_args.bump \in {"silent", "ignore", "no change"}
                        THEN [name |-> modified_crates[k], validate |-> "False", bump |-> None]
                        ELSE [name |-> modified_crates[k], validate |-> None,
                              bump |-> pd_args.bump]]
       /\ pd_pc' = IF how = "ok" THEN "write" ELSE how
  /\ UNCHANGED << pd_args, prdoc_file >>
  /\ UNCHANGED not_pd

\* open(path, "w") and yaml.dump, which may raise after the file was truncated.
PdWrite ==
  /\ pd_pc = "write"
  /\ \E dumped \in BOOLEAN :
       /\ prdoc_file' = IF dumped THEN [content |-> "new", crates |-> prdoc]
                        ELSE [content |-> "truncated", crates |-> << >>]
       /\ pd_pc' = IF dumped THEN "done" ELSE "Exception"
  /\ UNCHANGED << pd_args, prdoc >>
  /\ UNCHANGED not_pd

PdNext ==
  \/ PdExists
  \/ PdCollect
  \/ PdWrite

Init ==
  /\ SemverInit
  /\ LabelInit
  /\ BenchInit
  /\ EachInit
  /\ WsInit
  /\ RtInit
  /\ DupInit
  /\ DtInit
  /\ ZnInit
  /\ PdInit

Next ==
  \/ OpenPrdoc
  \/ ParseEntry
  \/ ReturnBumps
  \/ ExtractCrateBumps
  \/ CheckCrate
  \/ Continue
  \/ Return

Spec == Init /\ [][Next]_vars

SpecLabel == Init /\ [][LabelNext]_vars

SpecBench == Init /\ [][BenchNext]_vars

SpecEach == Init /\ [][EachNext]_vars

SpecWorkspace == Init /\ [][WsNext]_vars

SpecRuntime == Init /\ [][RtNext]_vars

SpecDup == Init /\ [][DupNext]_vars

SpecDt == Init /\ [][DtNext]_vars

SpecZn == Init /\ [][ZnNext]_vars

SpecPd == Init /\ [][PdNext]_vars

\* ------------------------------------------------------------------ claims
\* The crate is one that the loop validates: published and not internal.
Validated(crate) == crate.publish /\ ~crate.internal

\* The iteration of the loop for the crate new has ended.
Iterated == new.name # None

\* The crate new is in both snapshots: find_by_name found it.
InBoth == Iterated /\ old # Unset /\ old # NoCrate

\* The failures that are policy violations of a crate.
SemverKinds == {"strict_major", "strict_minor", "strict_patch", "invalid"}
PrdocKinds == {"undeclared", "declared_none", "mismatch"}
PolicyKinds == {"suffix", "bootstrap"} \cup SemverKinds \cup PrdocKinds

C2_PrdocBumps ==
  (InBoth /\ Validated(new) /\ error.kind \notin SemverKinds) =>
    LET declared == expected_crate_bumps[new.name]
        changed == new.version # old
    IN /\ (outcome = "checked") <=>
            \/ ~changed /\ declared = Absent
            \/ changed /\ declared # Absent /\ bump.kind = declared
       /\ (outcome # "checked") => (pc = "failed" /\ error.kind \in PrdocKinds)
       /\ (changed /\ declared = Absent) => error.kind = "undeclared"
       /\ (~changed /\ declared # Absent) => error.kind = "declared_none"
       /\ (changed /\ declared # Absent /\ bump.kind # declared) =>
            (error.kind = "mismatch" /\ error.expected = declared /\ error.got = bump.kind)

\* A minor bump declared as major fails with both kinds in the message.
C2_Witness ==
  /\ InBoth
  /\ error.kind = "mismatch"
  /\ error.expected = "Major"
  /\ error.got = "Minor"

\* The minimal strict increments of a version o.
StrictIncrement(o, n) ==
  \/ n = << o[1] + 1, 0, 0 >>
  \/ n = << o[1], o[2] + 1, 0 >>
  \/ n = << o[1], o[2], o[3] + 1 >>

\* n is above o in the order of versions.
Increase(o, n) ==
  \/ n[1] > o[1]
  \/ n[1] = o[1] /\ n[2] > o[2]
  \/ n[1] = o[1] /\ n[2] = o[2] /\ n[3] > o[3]

\* C3: for a published, non-internal package of both snapshots whose version
\* changed, check_crate_semver_bumps accepts the change only if it is the
\* minimal strict increment of its kind; any other increase fails the run with
\* the message of the strict check of its kind.
C3_StrictIncrement ==
  (InBoth /\ Validated(new) /\ new.version # old) =>
    /\ (error.kind \notin SemverKinds) => StrictIncrement(old, new.version)
    /\ (Increase(old, new.version) /\ ~StrictIncrement(old, new.version)) =>
         /\ pc = "failed"
         /\ error.kind =
              IF new.version[1] > old[1] THEN "strict_major"
              ELSE IF new.version[2] > old[2] THEN "strict_minor"
              ELSE "strict_patch"
         /\ error.version = new.version

\* The minor version jumped by two and the run failed on the strict minor check.
C3_Witness ==
  /\ InBoth
  /\ new.version[1] = old[1]
  /\ new.version[2] = old[2] + 2
  /\ new.version[3] = 0
  /\ error.kind = "strict_minor"

\* The versions a new published crate may start at.
BootstrapVersions == { << 0, 0, 1 >>, << 0, 1, 0 >>, << 1, 0, 0 >> }

\* C4: a published, non-internal package of the new snapshot that the base
\* snapshot does not have is accepted if and only if its version is 0.0.1,
\* 0.1.0 or 1.0.0; any other version fails the bootstrap check.
C4_Bootstrap ==
  (Iterated /\ Validated(new) /\ old = NoCrate) =>
    /\ (outcome = "new") <=> (new.version \in BootstrapVersions)
    /\ (outcome # "new") =>
         (pc = "failed" /\ error.kind = "bootstrap" /\ error.crate = new.name)

\* A new crate at 0.2.0 failed the bootstrap check.
C4_Witness ==
  /\ old = NoCrate
  /\ new.version = << 0, 2, 0 >>
  /\ error.kind = "bootstrap"

\* C5 as stated: a published, non-internal package of the new snapshot whose
\* version has a suffix fails the run before the base snapshot is looked at
\* and before any bump is computed, and the failure reports the name of the
\* package and its version.
C5_SuffixReportsVersion ==
  (Iterated /\ Validated(new) /\ new.suffix # None) =>
    /\ pc = "failed"
    /\ error.kind = "suffix"
    /\ old = Unset
    /\ bump = UnsetBump
    /\ error.crate = new.name
    /\ error.version = new.version

\* C5 as amended: the same, but the failure reports the name of the package
\* only; its message does not have the version.
C5_SuffixReportsName ==
  (Iterated /\ Validated(new) /\ new.suffix # None) =>
    /\ pc = "failed"
    /\ error.kind = "suffix"
    /\ old = Unset
    /\ bump = UnsetBump
    /\ error.crate = new.name
    /\ error.version = NoCrate

\* A published crate with a suffix ended the run.
C5_Witness ==
  /\ Iterated
  /\ Validated(new)
  /\ new.suffix # None
  /\ error.kind = "suffix"

\* The keywords of the vocabulary.
Vocabulary == {"patch", "minor", "major"}

\* The highest kind that the entries of the set S declare for the crate n, or
\* Absent when no entry of S declares one.
DeclaredMax(n, S) ==
  LET ks == { from_str(e.bump) : e \in { e \in S : e.name = n /\ e.bump \in Vocabulary } }
  IN IF ks = {} THEN Absent
     ELSE CHOOSE k \in ks : \A k2 \in ks : Rank(k2) <= Rank(k)

\* C6: parse_prdocs holds, and returns, for every package the maximum of the
\* bump kinds that the entries read declare for it, under Major > Minor >
\* Patch: the dictionary is a function of the set of the entries, whatever
\* the order of the documents and of the entries in them.
C6_MaxPerCrate ==
  /\ pc = "parse" => bumps_per_crate = [n \in Names |-> DeclaredMax(n, seen)]
  /\ pc = "extract" => expected_crate_bumps = [n \in Names |-> DeclaredMax(n, seen)]

\* Major then patch for the same package: the entry read last is the patch,
\* and parse_prdocs returns Major.
C6_Witness ==
  /\ pc = "extract"
  /\ entry.bump = "patch"
  /\ [name |-> entry.name, bump |-> "major"] \in seen
  /\ expected_crate_bumps[entry.name] = "Major"

\* C7: an entry without a bump keyword contributes nothing: reading it leaves
\* the dictionary of parse_prdocs as it is, and a package whose entries all
\* lack the keyword is not a key of the dictionary built or returned.
C7_NoBumpNoEntry ==
  /\ [](\A n \in Names :
          (\A e \in seen : e.name = n => e.bump = None) =>
             /\ pc \in {"parse", "extract"} => bumps_per_crate[n] = Absent
             /\ pc = "extract" => expected_crate_bumps[n] = Absent)
  /\ [][(pc = "parse" /\ nentries' = nentries + 1 /\ entry'.bump = None) =>
          (bumps_per_crate' = bumps_per_crate /\ pc' = "parse")]_vars

\* parse_prdocs returned a dictionary without the package of an entry that has
\* no keyword, and with the bump of another package.
C7_Witness ==
  /\ pc = "extract"
  /\ entry.name # None
  /\ entry.bump = None
  /\ expected_crate_bumps[entry.name] = Absent
  /\ \E n \in Names : expected_crate_bumps[n] # Absent

\* C8: a bump keyword outside the vocabulary, in any prdoc, fails the run in
\* parse_prdocs: extract_crate_bumps is not called, no ref is checked out, no
\* snapshot is built and no package is validated.
C8_BadKeywordBeforeValidation ==
  (\E e \in seen : e.bump \notin Vocabulary \cup {None}) =>
    /\ pc = "failed"
    /\ error.kind = "keyword"
    /\ checkouts = << >>
    /\ news = << >>
    /\ i = 0
    /\ ~Iterated

\* The keyword of an entry of the second prdoc ended the run.
C8_Witness ==
  /\ pc = "failed"
  /\ error.kind = "keyword"
  /\ ndocs > 1
  /\ \E e \in seen : e.bump \in Vocabulary

\* The prdocs declare a bump for a crate that the workspace built does not have.
DeclaredMissing ==
  /\ checkouts # << >>
  /\ \E n \in Names : expected_crate_bumps[n] # Absent /\ n \notin Range(news)

\* C9 as stated: a prdoc that declares a bump for a package that the workspace
\* does not have is fatal to the run: the run takes no package for validation
\* and does not end well.
C9_MissingCrateAborts ==
  DeclaredMissing => (i = 0 /\ pc # "done")

\* C9 as amended: such a declaration is no error of the run: check-semver.py
\* looks up the declared bumps of the crates of the new snapshot only, the
\* entry is ignored, and the run fails only on a policy violation of a
\* published, non-internal crate of the new snapshot.
C9_MissingCrateIgnored ==
  DeclaredMissing =>
    /\ pc # "failed" => error = NoError
    /\ pc = "failed" =>
         /\ error.kind \in PolicyKinds
         /\ Validated(new)
         /\ new.name \in Range(news)

\* A run that validated a package and ended well although a bump is declared
\* for a crate that the workspace does not have.
C9_Witness ==
  /\ DeclaredMissing
  /\ pc = "done"
  /\ i > 0

\* C10: a package of the new snapshot that is not published, or that is
\* internal, never causes a failure: the loop passes over it before it looks
\* at its suffix, at the base snapshot or at the declared bumps.
C10_OnlyPublishedValidated ==
  /\ (Iterated /\ ~Validated(new)) =>
       /\ pc = "continue"
       /\ error = NoError
       /\ outcome = IF ~new.publish THEN "not_published" ELSE "internal"
       /\ old = Unset
       /\ bump = UnsetBump
  /\ (pc = "failed" /\ Iterated) => Validated(new)

\* The loop passed over an internal crate that has a suffix, a version that is
\* no bootstrap version and a declared bump.
C10_Witness ==
  /\ outcome = "internal"
  /\ new.publish
  /\ new.suffix # None
  /\ new.version \notin BootstrapVersions
  /\ expected_crate_bumps[new.name] # Absent

\* C11: for a published, non-internal package of both snapshots whose new
\* version differs from the base version without being above it (a field went
\* down), the validator rejects the change: the run fails in
\* check_crate_semver_bumps, as an invalid version bump or, where the library
\* classifies the change as major, on the strict major check; the change is
\* never accepted.
C11_DecreaseRejected ==
  (InBoth /\ Validated(new) /\ new.version # old /\ ~Increase(old, new.version)) =>
    /\ pc = "failed"
    /\ outcome = "raised"
    /\ error.kind \in {"invalid", "strict_major"}
    /\ bump.kind = "Invalid" => (error.kind = "invalid" /\ error.crate = new.name)

\* The patch version went down and the run failed on an invalid version bump.
C11_Witness ==
  /\ InBoth
  /\ new.version[1] = old[1]
  /\ new.version[2] = old[2]
  /\ new.version[3] < old[3]
  /\ error.kind = "invalid"

\* ------------------------------------------------- claims on the label command
LabelOver == label_pc \in {"done", "exit1"}

PermissionMessage == "Only the PR author or organization members can modify labels"

\* The spellings of 'true', whatever the case.
TrueSpellings == {"true", "True"}

CallerAllowed ==
  \/ permission.is_org_member \in TrueSpellings
  \/ permission.is_pr_author \in TrueSpellings

\* C12 (as stated): LABELS_JSON is emitted only after the PR has been
\* confirmed open, not merged and not in the merge queue.
C12_StatusConfirmed ==
  label_out.kind = "LABELS_JSON" => pr_status.result = "open"

\* C13 (as stated): LABELS_JSON is emitted only if the caller is the PR author
\* or an organization member; if neither holds the command ends with ERROR_JSON
\* and the message on the permission, exits 1, and the labels are not fetched.
C13_PermissionMessageAlways ==
  /\ label_out.kind = "LABELS_JSON" => CallerAllowed
  /\ (LabelOver /\ ~CallerAllowed) =>
       /\ label_pc = "exit1"
       /\ label_out.kind = "ERROR_JSON"
       /\ label_out.details = PermissionMessage
       /\ ~allowed_labels.fetched

\* C13 (amended): LABELS_JSON is emitted only if the caller is the PR author
\* or an organization member; if neither holds the command ends with ERROR_JSON,
\* exits 1 and the labels are not fetched, and the message is the one on the
\* permission unless the check of the PR status has failed before, whose
\* message it is then.
C13_PermissionBeforeFetch ==
  /\ label_out.kind = "LABELS_JSON" => CallerAllowed
  /\ (label_pc \notin {"status", "permission"} /\ ~CallerAllowed) =>
       /\ label_pc = "exit1"
       /\ label_out.kind = "ERROR_JSON"
       /\ label_out.labels = << >>
       /\ ~allowed_labels.fetched
       /\ pr_status.result # "refused" => label_out.details = PermissionMessage
       /\ pr_status.result = "refused" => label_out.details # PermissionMessage

\* The permission is refused to a caller whose IS_ORG_MEMBER is neither unset nor 'false'.
C13_Witness ==
  /\ permission.read
  /\ permission.is_org_member = "1"
  /\ ~CallerAllowed
  /\ label_out.details = PermissionMessage

\* The requested labels that are neither allowed nor auto-correctable.
Rejected ==
  { k \in DOMAIN labels : resolve(labels[k], allowed_labels.labels, matches[k]) = None }

\* C14: the validation of the labels is all-or-nothing: when a requested label
\* is neither allowed nor auto-correctable the command exits 1 with ERROR_JSON
\* and no label; when LABELS_JSON is emitted it has one label per requested
\* label, in the order of the request (an allowed label is emitted as it is),
\* and every emitted label is an allowed label.
C14_AllOrNothing ==
  /\ (labels # << >> /\ Rejected # {}) =>
       /\ label_pc = "exit1"
       /\ label_out.kind = "ERROR_JSON"
       /\ label_out.labels = << >>
  /\ label_out.kind = "LABELS_JSON" =>
       /\ Len(label_out.labels) = Len(labels)
       /\ \A k \in DOMAIN labels :
            /\ label_out.labels[k] \in allowed_labels.labels
            /\ labels[k] \in allowed_labels.labels => label_out.labels[k] = labels[k]
            /\ label_out.labels[k] = resolve(labels[k], allowed_labels.labels, matches[k])

\* A request with an allowed label and a rejected one ends with no label.
C14_Witness ==
  /\ label_pc = "exit1"
  /\ Rejected # {}
  /\ \E k \in DOMAIN labels : labels[k] \in allowed_labels.labels

\* ------------------------------------------------- claims on the bench command
\* The benchmarks run so far for a runtime: their pallets, in the order of the runs.
Benchmarked(r) ==
  LET runs == SelectSeq(bench_log, LAMBDA c : c.cmd = "bench" /\ c.runtime = r)
  IN [k \in DOMAIN runs |-> runs[k].pallet]

\* The pallet list that was reported for a runtime contains every requested pallet.
ReportedAll(r) ==
  \E k \in DOMAIN bench_log :
    /\ bench_log[k].cmd = "list"
    /\ bench_log[k].runtime = r
    /\ Range(bench_args.pallet) \subseteq Range(bench_log[k].output)

\* C15 (as stated): with --pallet, a selected runtime is benchmarked if and
\* only if the pallet list reported for it contains every requested pallet;
\* for such a runtime exactly the requested pallets are benchmarked, once each.
C15_BenchmarkedIffReported ==
  (bench_pc \in {"done", "exit1"} /\ bench_args.pallet # << >>) =>
    \A r \in bench_args.runtime :
      /\ Benchmarked(r) # << >> <=> ReportedAll(r)
      /\ ReportedAll(r) =>
           /\ Range(Benchmarked(r)) = Range(bench_args.pallet)
           /\ \A a, b \in DOMAIN Benchmarked(r) : a # b => Benchmarked(r)[a] # Benchmarked(r)[b]

\* C15 (amended): with --pallet, no benchmark command is ever issued for a
\* runtime whose reported pallet list lacks a requested pallet (or that has
\* reported no list), and a benchmarked runtime is benchmarked for the requested
\* pallets in the order of the request; in a run that is not ended by
\* sys.exit(1), a selected runtime is benchmarked if and only if its reported
\* list contains every requested pallet, and then once for each occurrence of
\* a pallet in the request.
C15_BenchmarkedAsRequested ==
  bench_args.pallet # << >> =>
    \A r \in Range(runtimeNames) :
      /\ Benchmarked(r) # << >> => (r \in bench_args.runtime /\ ReportedAll(r))
      /\ Len(Benchmarked(r)) <= Len(bench_args.pallet)
      /\ \A k \in DOMAIN Benchmarked(r) : Benchmarked(r)[k] = bench_args.pallet[k]
      /\ (bench_pc = "done" /\ r \in bench_args.runtime /\ ReportedAll(r)) =>
           Benchmarked(r) = bench_args.pallet

\* A run to its end where one runtime has the requested pallets and the other lacks one.
C15_Witness ==
  /\ bench_pc = "done"
  /\ bench_args.pallet # << >>
  /\ bench_args.runtime = Range(runtimeNames)
  /\ \E r, q \in bench_args.runtime :
       /\ ReportedAll(r)
       /\ Benchmarked(r) = bench_args.pallet
       /\ ~ReportedAll(q)
       /\ \E k \in DOMAIN bench_log : bench_log[k].cmd = "list" /\ bench_log[k].runtime = q
       /\ Benchmarked(q) = << >>

\* The builds and benchmarks that failed.
Failures ==
  { k \in DOMAIN bench_log : bench_log[k].cmd \in {"build", "bench"} /\ bench_log[k].status # 0 }

\* C16: with --fail-fast the bench command exits with code 1 at the first
\* build or benchmark of non-zero status, and no build or benchmark command
\* (nor any other command) is issued after that failure.
C16_FailFast ==
  (bench_args.fail_fast /\ Failures # {}) =>
    /\ bench_pc = "exit1"
    /\ Failures = {Len(bench_log)}

\* A benchmark fails under --fail-fast after a benchmark that passed.
C16_Witness ==
  /\ bench_args.fail_fast
  /\ bench_pc = "exit1"
  /\ Len(bench_log) > 1
  /\ bench_log[Len(bench_log)].cmd = "bench"
  /\ bench_log[Len(bench_log)].status # 0
  /\ \E k \in DOMAIN bench_log : bench_log[k].cmd = "bench" /\ bench_log[k].status = 0

\* ------------------------------------------------- claims on check-each-crate.py
\* The number of cargo checks of a crate, and of a group, so far.
ChecksOf(c) == Cardinality({ k \in DOMAIN checked : checked[k].crate = c })
ChecksBy(g) == Cardinality({ k \in DOMAIN checked : checked[k].group = g })

\* C17: once the script has run for each group 1..G with every check
\* succeeding, every crate of the sorted list without duplicates has been
\* checked exactly once; the last group checks the N mod G crates that the
\* integer division leaves, besides its N div G; and no run reads the list
\* outside its indices.
C17_EveryCrateOnce ==
  /\ each_pc # "IndexError"
  /\ \A k \in DOMAIN crates : k > 1 => crates[k - 1] < crates[k]
  /\ Range(crates) = Range(output)
  /\ \A c \in Crates : ChecksOf(c) <= 1
  /\ each_pc = "done" =>
       /\ \A c \in Range(crates) : ChecksOf(c) = 1
       /\ \A g \in 1..groups_total :
            ChecksBy(g) = (Len(crates) \div groups_total)
                          + (IF g = groups_total THEN Len(crates) % groups_total ELSE 0)

\* All the runs are over, and the last group had crates left by the division.
C17_Witness ==
  /\ each_pc = "done"
  /\ groups_total > 1
  /\ Len(crates) % groups_total # 0
  /\ Len(crates) > groups_total
  /\ Len(output) > Len(crates)

\* ------------------------------------------------- claims on check-workspace.py
\* The crates found on disk, and not excluded, whose path is no member of the workspace.
Unlisted ==
  { k \in DOMAIN disk : /\ disk[k].path \notin exclude
                        /\ disk[k].path \notin Range(workspace_crates) }

\* C18 (as stated): check_missing lets the run go on only if every crate path
\* found on disk, and not excluded, is a member of the workspace; when a crate
\* path is not listed the run ends in check_missing with exit code 1.
C18_AllCratesInWorkspace ==
  /\ (ws_pc \in {"links", "done"} \/ ws_exit = "check_links") => Unlisted = {}
  /\ (ws_pc = "exit1" /\ ws_exit = "check_missing") =>
       Len(workspace_crates) # Cardinality(keys(all_crates))

\* The dependencies of the manifests that name a crate of all_crates without a path.
BrokenDeclared ==
  { k \in DOMAIN manifests :
      /\ (IF manifests[k].package # None THEN manifests[k].package ELSE manifests[k].key)
           \in keys(all_crates)
      /\ ~manifests[k].path }

\* C19 (as stated): check_links exits with 1 if and only if a crate declares,
\* in one of its tables of dependencies, a dependency on a crate of the
\* workspace without a 'path' key, and every such broken link is counted in
\* the summary of the broken links.
C19_EveryBrokenLinkCounted ==
  (ws_pc = "done" \/ ws_exit = "check_links") =>
    /\ ws_exit = "check_links" <=> BrokenDeclared # {}
    /\ Len(broken) = Cardinality(BrokenDeclared)

\* ------------------------------------------------- claims on check-runtime.py
\* Every constant listed under a pallet of the specs is a constant of that
\* pallet of the metadata, with an equal value.
Expected ==
  \A p \in DOMAIN specs : \A c \in DOMAIN specs[p].constants :
    \E m \in DOMAIN metadata :
      /\ metadata[m].id = specs[p].id
      /\ \E k \in DOMAIN metadata[m].constants :
           /\ metadata[m].constants[k].name = specs[p].constants[c].name
           /\ metadata[m].constants[k].value = specs[p].constants[c].value

\* C20 (as stated): check_metadata returns True if and only if every constant
\* listed under a pallet of the specs is in the pallet of the metadata with an
\* equal value; otherwise the result is False and the exit code 1.  (The
\* runs that an exception ends return nothing and are left out.)
C20_AllListedConstants ==
  rt_res \in {"True", "False"} =>
    /\ rt_res = "True" <=> Expected
    /\ ~Expected => rt_pc = "exit1"

\* ------------------------------------------------- claims on check-duplicated-deps.py
\* The configuration that an entry stands for: a version string "v" is the
\* table {version = "v"}, and the order of the keys of a table is irrelevant.
Configuration(config) ==
  IF config.type = "str" THEN [type |-> "dict", items |-> {<< "version", config.items[1][2] >>}]
  ELSE IF config.type = "dict" THEN [type |-> "dict", items |-> Range(config.items)]
  ELSE [type |-> "other", items |-> Range(config.items)]

\* The manifests outside target that toml can load.
Loaded ==
  { path \in Range(TomlPaths) : path # "./target/Cargo.toml" /\ tomls[path].status = "ok" }

\* The dependencies that are in both tables of the manifest at a path.
InBothTables(path) ==
  { n \in {"serde", "log"} : /\ tomls[path].deps[n].type # "absent"
                             /\ tomls[path].dev_deps[n].type # "absent" }

Statuses_of_report ==
  { report[f][c][m] : f \in Range(MetadataFiles), c \in ReportKeys.cases, m \in ReportKeys.modes }
    \ {"absent"}

\* C22: the script exits with 1 if and only if an execution report, of any
\* metadata file, case and mode, has the status Failed; with Succeeded and
\* Ignored alone, or with no execution report, it exits with 0; the files
\* that the loop has left behind have no Failed.
C22_ExitOneIffFailed ==
  /\ dt_pc = "exit1" => "Failed" \in Statuses_of_report
  /\ dt_pc = "exit0" => "Failed" \notin Statuses_of_report
  /\ (dt_pc = "loop" /\ dt_i > 1) =>
       \A k \in 1..(dt_i - 1) : \A c \in ReportKeys.cases, m \in ReportKeys.modes :
         report[MetadataFiles[k]][c][m] # "Failed"

\* The only failure is in the last mode of the last case of the last file,
\* after reports that succeeded and reports that were ignored.
C22_Witness ==
  /\ dt_pc = "exit1"
  /\ report["b.json"]["1"]["E-"] = "Failed"
  /\ report["a.json"]["0"]["Y+"] = "Ignored"
  /\ report["a.json"]["1"]["Y+"] = "Succeeded"
  /\ \A f \in Range(MetadataFiles), c \in ReportKeys.cases, m \in ReportKeys.modes :
       report[f][c][m] = "Failed" => << f, c, m >> = << "b.json", "1", "E-" >>

\* ------------------------------------------------- claims on parse-zombienet-tests.py
\* The names of the flaky list: its lines, without the white space around
\* them and without the empty lines.
FlakyList ==
  { name \in {"zombie-a", "zombie-b"} :
      \E k \in DOMAIN flaky_tests : flaky_tests[k] \in {name, " " \o name \o " "} }

\* The jobs whose job-name matches the pattern: the name has "zombie" in it,
\* or ends with "-b".
Matching ==
  IF test_pattern = "zombie" THEN {"zombie-a", "zombie-b", " zombie-a"}
  ELSE IF test_pattern = "-b$" THEN {"zombie-b"}
  ELSE {}

\* C23: with an empty test_pattern the result is the jobs whose job-name is
\* not in the flaky list; with a test_pattern it is the jobs whose job-name
\* matches the pattern, flaky or not; either way it is the input jobs that
\* are kept, in their order.
C23_FlakyUnlessPattern ==
  zn_pc = "done" =>
    /\ test_pattern = "" => filtered = SelectSeq(jobs, LAMBDA name : name \notin FlakyList)
    /\ test_pattern # "" => filtered = SelectSeq(jobs, LAMBDA name : name \in Matching)

\* A flaky job is printed under a pattern, after a job that is not flaky.
C23_Witness ==
  /\ zn_pc = "done"
  /\ test_pattern = "zombie"
  /\ flaky_tests = << "", " zombie-a " >>
  /\ jobs = << "zombie-b", "", "zombie-a" >>
  /\ filtered = << "zombie-b", "zombie-a" >>

\* ------------------------------------------------- claims on generate-prdoc.py
\* C24: when the prdoc of the PR exists and force is not True, the run exits
\* with 1 and the file is left as it was; the file is written (or truncated)
\* only when it did not exist or force is True.
C24_NoOverwriteWithoutForce ==
  /\ (pd_pc # "exists" /\ pd_args.existed /\ ~pd_args.force) =>
       /\ pd_pc = "exit1"
       /\ prdoc = << >>
       /\ prdoc_file = [content |-> "old", crates |-> << >>]
  /\ prdoc_file.content \in {"new", "truncated"} => (~pd_args.existed \/ pd_args.force)
  /\ (pd_args.existed /\ prdoc_file.content # "old") => (pd_args.force /\ pd_pc \in {"done", "Exception"})
  /\ pd_pc = "done" => prdoc_file = [content |-> "new", crates |-> prdoc]

\* A run that finds the prdoc and has no --force.
C24_Witness ==
  /\ pd_pc = "exit1"
  /\ pd_args.existed
  /\ ~pd_args.force
  /\ prdoc_file.content = "old"

\* C25: a published, non-internal crate that the base snapshot does not have
\* is not held against the declared bumps: no bump is computed for it, and
\* whether it passes is decided by its version alone (no suffix, and 0.0.1,
\* 0.1.0 or 1.0.0), whatever the prdocs declare, a bump for this crate included.
C25_NewCrateSkipsDeclaredBumps ==
  /\ (Iterated /\ Validated(new) /\ old = NoCrate) =>
       /\ new.suffix = None
       /\ bump = UnsetBump
       /\ error.kind \notin PrdocKinds \cup SemverKinds
       /\ IF into_mmp(new.version) = Version1
            THEN pc = "continue" /\ outcome = "new" /\ error = NoError
            ELSE /\ pc = "failed"
                 /\ outcome = "raised"
                 /\ error = Error("bootstrap", new.name, new.version, None, None)
  /\ (Iterated /\ Validated(new) /\ new.suffix # None) =>
       /\ old = Unset
       /\ pc = "failed"
       /\ error = Error("suffix", new.name, NoCrate, None, None)

\* A new crate with a declared bump that passed.
C25_Witness ==
  /\ Iterated
  /\ Validated(new)
  /\ old = NoCrate
  /\ expected_crate_bumps[new.name] # Absent
  /\ outcome = "new"
  /\ pc = "continue"

====
